---- MODULE Spec2Model ----
(***************************************************************************)
(* Model of the WSL execution bridge of SlicerAutomatedDentalTools:        *)
(* src/ALI_IOS/Func_Miniconda.py (runtime and environment provisioning,    *)
(* worker launch, rpyc client).                                            *)
(*                                                                         *)
(* The specifications share the variables:                                 *)
(*   Spec           provisioning: setup() and install_conda()              *)
(*   SpecTransport  the same over a gateway that may reach no distribution *)
(*   SpecBridge     the rpyc client call() and the worker processes        *)
(*   SpecPath       windows_to_linux_path() on every short string          *)
(*   SpecProbe      checkEnvCondaWsl() on listings                         *)
(*   SpecGui        FlexReg.py shapeaxi_windows() and its threads          *)
(*   SpecNorm       normalize_percentile.py enhance_contrast()             *)
(*   SpecReg        FlexReg.py class Reg and its timer                     *)
(*   SpecWidget     FlexReg.py WidgetParameter patch jobs and its timer    *)
(*   SpecSeg        FlexReg.py WidgetParameter.shapeaxi and its polling    *)
(*   SpecScan       FlexReg.py FlexRegWidget.manageNumberWidgetScan        *)
(*   SpecDownload   FlexReg.py WidgetParameter.DownloadUnzip               *)
(*   SpecCombo      FlexReg.py WidgetParameter.addItemsCombobox            *)
(*   SpecEntry      Func_Miniconda.py run as a script, any argument vector *)
(*                                                                         *)
(* Every subprocess the code starts is one step; its exit code is an input *)
(* of the step, drawn from the codes the subsystem can produce in its      *)
(* current state (a command that needs a file or a program that is not     *)
(* there cannot exit 0).                                                   *)
(***************************************************************************)
EXTENDS Integers, Sequences, FiniteSets, TLC

(* ------------------------------ bounds -------------------------------- *)
\* number of top-level operations (setup / install_conda) started in Spec
MaxOps == 2
\* largest voxel intensity and threshold handed to enhance_contrast in SpecNorm
MaxIntensity == 3
\* largest min_norm and max_norm handed to enhance_contrast in SpecNorm
MaxNorm == 2
\* invocations of Reg.run in SpecReg
MaxRuns == 3
\* number of call() invocations started in SpecBridge
MaxCalls == 2
\* longest host path handed to windows_to_linux_path in SpecPath
MaxPathLen == 4
\* longest listing line read by checkEnvCondaWsl in SpecProbe
MaxLineLen == 3
\* activations of shapeaxi_windows nested in one another in SpecGui
MaxDepth == 2
\* background threads started in SpecGui
MaxThreads == 4
\* CLI jobs started on one WidgetParameter in SpecWidget
MaxJobs == 3
\* largest number of scan widgets asked for in SpecScan
MaxScans == 5
\* calls of manageNumberWidgetScan in SpecScan
MaxScanCalls == 4
\* calls of DownloadUnzip in SpecDownload
MaxDownloads == 4
\* blocks the archive is read in
MaxBlocks == 3
\* items of the patch combobox in SpecCombo
MaxItems == 2
\* longest item text of the patch combobox in SpecCombo
MaxTextLen == 2
\* longest argument vector in SpecEntry
MaxArgv == 12
\* calls of shapeaxi in SpecSeg
MaxSegCalls == 3
\* updates of the time label counted in one call of shapeaxi
MaxTicks == 3

(* ----------------------------- vocabulary ----------------------------- *)
\* the environment name setup() provisions (line 175)
SetupName == "aliIOSCondaCli"
\* values of folder_name handed to DownloadUnzip; testFile hands "FlexReg"
Folders == {"FlexReg", "other"}
\* names a caller may hand to call()
Names == {"aliIOSCondaCli", "shapeaxi"}

\* exit codes: 0 success, 1 any non-zero exit
Rcs == {0, 1}

\* the check_call sequence of install_miniconda_on_wsl, lines 48-63
InstallSteps == <<"wget", "chmod", "bash", "rm", "echo_path", "source_bashrc">>

\* the install_commands list of createCondaEnv, lines 122-131
InstallCommands ==
    <<"pip_torch", "pip_monai", "pip_torch_cu113", "pip_fvcore",
      "pip_pytorch3d", "pip_rpyc", "pip_vtk", "pip_scipy">>

\* the artifact removed before the installer is run
CondaSteps_rmFirst == <<"ic_wget", "ic_chmod", "ic_rm", "ic_bash", "ic_init">>

\* the subprocess sequence of install_conda, lines 29-36
CondaSteps == <<"ic_wget", "ic_chmod", "ic_bash", "ic_rm", "ic_init">>

\* the statements of call(), lines 217-236, in program order
CallSteps ==
    <<"c_activate", "c_popen", "c_sleep226", "c_connect", "c_sleep230",
      "c_running", "c_stop", "c_close">>

VARIABLES
    pc,           \* position of the running operation, "idle" when none runs
    k,            \* loop / sequence index of the current step list
    cmds,         \* commands issued by the running operation: <<[cmd, rc]>>
    ret,          \* how the last finished operation ended
    nOps,         \* operations started so far
    \* ---- the subsystem
    miniconda,    \* ~/miniconda3 exists in the subsystem
    artifactCwd,  \* Miniconda3-latest-Linux-x86_64.sh exists (install_miniconda_on_wsl)
    artifactPre,  \* <prefix>/miniconda.sh exists (install_conda)
    envs,         \* conda environments that exist in the subsystem
    \* ---- locals of setup / createCondaEnv
    minicondaLocal, \* setup: miniconda (line 170)
    result,         \* createCondaEnv: result.returncode of the latest run
    report,         \* createCondaEnv: the closing message, lines 145-148
    installMsg,     \* install_miniconda_on_wsl: the message it printed
    ensured,        \* what the environment step of the running setup did
    prevEnsured,    \* what the environment step of the setup before it did
    \* ---- the bridge
    workers,      \* worker process launched by call number i
    conns,        \* client connection made by call number i
    peer,         \* worker the connection of call number i is attached to
    outcome,      \* how call number i ended
    nCalls,       \* calls started so far
    callName,     \* name argument of the running call
    stopResult,   \* call: result (line 234)
    rpycBound,    \* the module global rpyc names the rpyc package
    \* ---- the worker command line
    job,          \* the arguments sys.argv[3] to sys.argv[8]
    args,         \* the dictionary __main__ hands to setup
    launched,     \* the command line of the worker last started
    pkgLog,       \* what the running operation printed about failed install commands
    \* ---- windows_to_linux_path applied to a host path
    pathIn,       \* the argument windows_path
    pathOut,      \* the value returned for pathIn
    pathOut2,     \* the value returned for pathOut
    pathStage,    \* number of applications done
    \* ---- checkEnvCondaWsl applied to a listing
    probeLines,   \* env_lines: the lines of the listing (line 84)
    probeName,    \* the argument name
    probeRc,      \* result.returncode of the listing command
    probeDone,    \* checkEnvCondaWsl has returned
    probeResult,  \* the value it returned
    \* ---- the gateway to the subsystem
    reachable,    \* wsl reaches a running distribution
    \* ---- FlexReg: the GUI thread and the threads it starts
    guiStack,     \* activations of shapeaxi_windows, the innermost last
    threads,      \* background threads started so far
    guiEnv,       \* the environment shapeaxi exists in the subsystem
    guiLast,      \* the activation of shapeaxi_windows that returned last
    \* ---- normalize_percentile.py: enhance_contrast on one voxel
    normV,        \* the intensity of the voxel, array[i]
    normLo,       \* lower_threshold
    normHi,       \* upper_threshold
    normMin,      \* min_norm
    normMax,      \* max_norm
    normDone,     \* enhance_contrast has returned
    normOut,      \* scaled_array[i] times (upper_threshold - lower_threshold)
    \* ---- FlexReg: Reg, its timer and its CLI
    regConns,     \* connections of timer.timeout to onProcessUpdateICP
    regProcessed, \* self._processed, "unset" before the first run
    regTimer,     \* self.timer is active
    regCli,       \* status of self.logic.cliNode
    regDialog,    \* self.timerDialog exists
    regPending,   \* slots of the timeout being delivered that are still to run
    regEnd,       \* executions of endProcess since the latest run
    regEndAll,    \* executions of endProcess since Reg was made
    \* ---- FlexReg: one WidgetParameter, its timer and its CLI jobs
    wJobs,        \* the CLI jobs started so far: operation and status
    wLogic,       \* the job self.logic.cliNode is, 0 before the first
    wConns,       \* the slots connected to timer.timeout, in order
    wFlags,       \* _processed, _processed2 and _processed3
    wTimer,       \* self.timer is active
    wPosts,       \* post-processings done: the handler and the job it read
    \* ---- FlexReg: WidgetParameter.shapeaxi and its segmentation CLI
    segPc,        \* "polling" inside the loop of shapeaxi, else "idle"
    segCli,       \* status of self.seg_clinode
    segProcessed2,\* self._processed2
    segTimer,     \* self.timer is active
    segConn,      \* onProcessUpdateSeg is connected to timer.timeout
    segDone,      \* self._segmentationCompleted
    segRet,       \* the value shapeaxi returned last
    segCalls,     \* calls of shapeaxi so far
    segTicks,     \* updates of the time label in the running call
    \* ---- FlexReg: FlexRegWidget and its list of scan widgets
    scanList,     \* self.list_widget_scan: the widgets, each with its title
    scanNumber,   \* self.number_widget_scan
    scanT1,       \* self.reg.T1, 0 for None
    scanT2,       \* self.reg.T2, 0 for None
    scanPc,       \* "loop" inside the while of manageNumberWidgetScan
    scanTarget,   \* the argument number of the running call
    scanMade,     \* WidgetParameter objects constructed so far
    scanCalls,    \* calls of manageNumberWidgetScan so far
    \* ---- FlexReg: WidgetParameter.DownloadUnzip on one folder
    dlPc,         \* "idle", "download" or "unzip"
    dlName,       \* the argument folder_name of the latest call
    dlFolder,     \* each out_path: "absent", "empty", "partial" or "full"
    dlTemp,       \* temp.zip: "absent", "partial" or "whole"
    dlRead,       \* blocks of the archive read in the running call
    dlRet,        \* how the last call ended: "none", "path" or "raised"
    dlCalls,      \* calls of DownloadUnzip so far
    \* ---- FlexReg: addItemsCombobox applied to a patch combobox
    comboItems,   \* the item texts of combobox_patch, in order
    comboDone,    \* addItemsCombobox has returned
    comboOut,     \* the string it returned
    \* ---- Func_Miniconda.py run as a script
    argvLen,      \* len(sys.argv)
    argvCmd,      \* sys.argv[1], "none" when there is none
    entryPc,      \* "guard", "args", "provision", "command", "launch", "done"
    entryIdx,     \* the index of sys.argv read next
    entryOut      \* "none", "skipped", "launched" or "IndexError"

provVars == <<miniconda, artifactCwd, artifactPre, envs, minicondaLocal,
              result, report, installMsg, ensured, prevEnsured, nOps>>
bridgeVars == <<workers, conns, peer, outcome, nCalls, callName, stopResult,
               rpycBound>>
pathVars == <<pathIn, pathOut, pathOut2, pathStage>>
probeVars == <<probeLines, probeName, probeRc, probeDone, probeResult>>
transportVars == <<reachable>>
guiVars == <<guiStack, threads, guiEnv, guiLast>>
normVars == <<normV, normLo, normHi, normMin, normMax, normDone, normOut>>
regVars == <<regConns, regProcessed, regTimer, regCli, regDialog, regPending,
             regEnd, regEndAll>>
patchVars == <<wJobs, wLogic, wConns, wFlags, wTimer, wPosts>>
segVars == <<segPc, segCli, segProcessed2, segTimer, segConn, segDone, segRet,
             segCalls, segTicks>>
scanVars == <<scanList, scanNumber, scanT1, scanT2, scanPc, scanTarget, scanMade,
              scanCalls>>
dlVars == <<dlPc, dlName, dlFolder, dlTemp, dlRead, dlRet, dlCalls>>
comboVars == <<comboItems, comboDone, comboOut>>
entryVars == <<argvLen, argvCmd, entryPc, entryIdx, entryOut>>
widgetVars == <<patchVars, segVars, scanVars, dlVars, comboVars, entryVars>>
auxVars == <<pathVars, probeVars, transportVars, guiVars, normVars, regVars,
             widgetVars>>
launchVars == <<job, args, launched>>
logVars == <<pkgLog>>
vars == <<pc, k, cmds, ret, provVars, bridgeVars, launchVars, logVars, auxVars>>

(* ------------------------------ helpers ------------------------------- *)
\* a subprocess that ran and exited with rc
Cmd(c, rc) == [cmd |-> c, rc |-> rc, exc |-> FALSE]
\* a subprocess call that raised OSError instead of returning (rc is unused)
Raised(c) == [cmd |-> c, rc |-> 1, exc |-> TRUE]

Issued(c) == \E i \in DOMAIN cmds : cmds[i].cmd = c
IssuedRc(c, rc) ==
    \E i \in DOMAIN cmds : cmds[i].cmd = c /\ cmds[i].rc = rc /\ ~cmds[i].exc
\* c was run and returned an exit code
Ran(c) == \E i \in DOMAIN cmds : cmds[i].cmd = c /\ ~cmds[i].exc
IndexOf(c) == CHOOSE i \in DOMAIN cmds : cmds[i].cmd = c
Count(c) == Cardinality({i \in DOMAIN cmds : cmds[i].cmd = c})

(* ------------------- the subsystem's possible answers ----------------- *)
\* exit codes a command can produce in the current subsystem state; wsl
\* itself exits non-zero when it reaches no distribution
PossibleRc(c) ==
    IF ~reachable THEN {1} ELSE
    CASE c = "test_d"       -> IF miniconda THEN {0} ELSE {1}
      [] c = "chmod"        -> IF artifactCwd THEN Rcs ELSE {1}
      [] c = "bash"         -> IF artifactCwd /\ ~miniconda THEN Rcs ELSE {1}
      [] c = "rm"           -> IF artifactCwd THEN Rcs ELSE {1}
      [] c = "pip_rpyc_base" -> IF miniconda THEN Rcs ELSE {1}
      [] c = "info_envs"    -> IF miniconda THEN {0} ELSE {1}
      [] c = "conda_create" -> IF miniconda THEN Rcs ELSE {1}
      [] c = "launch_link"  -> IF miniconda THEN Rcs ELSE {1}
      [] c = "ic_chmod"     -> IF artifactPre THEN Rcs ELSE {1}
      [] c = "ic_bash"      -> IF artifactPre THEN Rcs ELSE {1}
      [] c = "ic_init"      -> IF miniconda THEN Rcs ELSE {1}
      [] OTHER              -> Rcs

\* a pip command of install_commands needs the environment it activates
PkgRc(name) == IF reachable /\ name \in envs THEN Rcs ELSE {1}

\* basenames of the lines `conda info --envs` prints: the two header lines,
\* the base runtime's prefix and one line per environment
ListedBasenames == {"# conda environments:", "#", "miniconda3"} \cup envs

\* how an operation ends: back to idle with its return value
End(r) == /\ pc' = "idle"
          /\ ret' = r
          /\ k' = 0

(* ======================= windows_to_linux_path() ====================== *)
\* Strings are sequences of one-character strings.
\* characters of the host paths tried: a drive letter in both cases, another
\* letter, the colon, both separators and a blank
PathChars == {"C", "c", "a", ":", "\\", "/", " "}
Whitespace == {" "}
Letters == {"C", "c", "a"}

Strings(chars, n) == UNION {[1..m -> chars] : m \in 0..n}

\* str.lower() left out: the character as it is
LowerChar_identity(ch) == ch

\* str.lower() on one character
LowerChar(ch) == IF ch = "C" THEN "c" ELSE ch

Lower(str) == [i \in 1..Len(str) |-> LowerChar(str[i])]

\* line 154: str.strip() drops the whitespace at both ends
RECURSIVE LStrip(_)
LStrip(str) ==
    IF str # <<>> /\ Head(str) \in Whitespace THEN LStrip(Tail(str)) ELSE str

RECURSIVE RStrip(_)
RStrip(str) ==
    IF str # <<>> /\ str[Len(str)] \in Whitespace
       THEN RStrip(SubSeq(str, 1, Len(str) - 1))
       ELSE str

Strip(str) == RStrip(LStrip(str))

\* line 157: replace('\\', '/')
ReplaceBackslash(str) ==
    [i \in 1..Len(str) |-> IF str[i] = "\\" THEN "/" ELSE str[i]]

\* line 160: ':' in path
HasColon(str) == \E i \in 1..Len(str) : str[i] = ":"

\* line 161: path.split(':', 1) cuts at the first colon
FirstColon(str) ==
    CHOOSE i \in 1..Len(str) :
        str[i] = ":" /\ \A j \in 1..(i - 1) : str[j] # ":"

MntPrefix == <<"/", "m", "n", "t", "/">>

\* the colon kept between the drive and the rest
MountPath_keepColon(drive, rest) == MntPrefix \o Lower(drive) \o <<":">> \o rest

\* line 162: "/mnt/" + drive.lower() + path_without_drive
MountPath(drive, rest) == MntPrefix \o Lower(drive) \o rest

\* lines 152-164 (and FlexReg.py lines 1718-1730, the same statements)
windows_to_linux_path(windows_path) ==
    LET path == ReplaceBackslash(Strip(windows_path)) IN
    IF HasColon(path)
       THEN MountPath(SubSeq(path, 1, FirstColon(path) - 1),
                      SubSeq(path, FirstColon(path) + 1, Len(path)))
       ELSE path

(* ----------------------- the worker command line ---------------------- *)
\* sys.argv[3] to sys.argv[8] as the host hands them over: host paths with a
\* drive and lists of two elements, or paths that hold neither a drive nor a
\* backslash and lists of one element
HostJobs ==
    {[input |-> <<"C", ":", "\\", "a">>,
      dir_models |-> <<"C", ":", "\\", "m">>,
      lm_type |-> <<"O", " ", "C">>,
      teeth |-> <<"5", " ", "6">>,
      save_in_folder |-> <<"t", "r", "u", "e">>,
      output_dir |-> <<"C", ":", "\\", "o">>],
     [input |-> <<"/", "a">>,
      dir_models |-> <<"/", "m">>,
      lm_type |-> <<"O">>,
      teeth |-> <<"5">>,
      save_in_folder |-> <<"T", "r", "u", "e">>,
      output_dir |-> <<"/", "o">>]}

NoJob ==
    [input |-> <<>>, dir_models |-> <<>>, lm_type |-> <<>>, teeth |-> <<>>,
     save_in_folder |-> <<>>, output_dir |-> <<>>]

\* lines 248-249: str.split(" ") cuts at every blank
RECURSIVE SplitBlank(_)
SplitBlank(str) ==
    IF \A i \in 1..Len(str) : str[i] # " "
       THEN <<str>>
       ELSE LET i == CHOOSE n \in 1..Len(str) :
                         str[n] = " " /\ \A m \in 1..(n - 1) : str[m] # " "
            IN  <<SubSeq(str, 1, i - 1)>> \o SplitBlank(SubSeq(str, i + 1, Len(str)))

IsWord(w) == w # <<>>

\* bash -c "...": the shell cuts the unquoted text into words at the blanks
BashWords(str) == SelectSeq(SplitBlank(str), IsWord)

\* lines 245-257: the dictionary args of __main__
Descriptor(j) ==
    [input |-> j.input,
     dir_models |-> j.dir_models,
     lm_type |-> SplitBlank(j.lm_type),
     teeth |-> SplitBlank(j.teeth),
     save_in_folder |-> (j.save_in_folder = <<"t", "r", "u", "e">>),
     output_dir |-> j.output_dir,
     image_size |-> 224,
     blur_radius |-> 0,
     faces_per_pixel |-> 1]

NoDescriptor == [input |-> <<>>]

\* line 187: the text after the script in the command, name left out
ArgumentText(j) ==
    j.input \o <<" ">> \o j.dir_models \o <<" ">> \o j.lm_type \o <<" ">>
        \o j.teeth \o <<" ">> \o j.save_in_folder \o <<" ">> \o j.output_dir

\* line 11: the install prefix
DefaultInstallPath == "~/miniconda3"

\* lines 180-185: os.path.join(current_directory, "link.py") on the host
LinkHostPath == <<"C", ":", "\\", "l">>

\* lines 210-219: os.path.join(current_directory, 'server.py') on the host
ServerHostPath == <<"C", ":", "\\", "s">>

\* line 184: python_path = "~/miniconda3/bin/python"
BasePython == <<DefaultInstallPath, "bin", "python">>

\* line 207: os.path.join(default_install_path, "envs", name, "python")
EnvPython(name) == <<DefaultInstallPath, "envs", name, "python">>

NoLaunch ==
    [interp |-> <<>>, script |-> <<>>, input |-> <<>>, dir_models |-> <<>>,
     output_dir |-> <<>>, name |-> "none", words |-> <<>>]

\* line 187: the command line of setup
SetupCommand(j, name) ==
    [interp |-> BasePython,
     script |-> windows_to_linux_path(LinkHostPath),
     input |-> j.input,
     dir_models |-> j.dir_models,
     output_dir |-> j.output_dir,
     name |-> name,
     words |-> BashWords(ArgumentText(j)) \o << <<name>> >>]

\* line 220: the command line of call
CallCommand(name) ==
    [interp |-> EnvPython(name),
     script |-> ServerHostPath,
     input |-> <<>>,
     dir_models |-> <<>>,
     output_dir |-> <<>>,
     name |-> name,
     words |-> <<>>]

(* ============================== setup() =============================== *)
\* line 12: checkMinicondaWsl returns result.returncode == 0
ProbeOK(rc) == rc = 0

\* the test of line 171 without its negation
NeedsInstall_swapped(found) == found

\* line 171: setup installs the runtime when the probe said it is missing
NeedsInstall(found) == ~found

\* lines 81-92: checkEnvCondaWsl is True when the listing exited 0 and the
\* basename of one of its lines equals name
EnvExists(rc, listed, name) == rc = 0 /\ name \in listed

\* the creation of line 177 not guarded by the test of line 176
NeedsCreate_always(exists) == TRUE

\* line 176: setup creates the environment when checkEnvCondaWsl said False
NeedsCreate(exists) == ~exists

\* lines 145-148: the closing message of createCondaEnv tests `result`, which
\* at that point is the CompletedProcess of the last install command
ClosingReport(lastRc) == IF lastRc = 0 THEN "created" ELSE "failed"

\* a caller invokes setup(default_install_path, args)
SetupStart ==
    /\ pc = "idle"
    /\ nOps < MaxOps
    /\ nOps' = nOps + 1
    /\ pc' = "s_checkMiniconda"
    /\ cmds' = <<>>
    /\ k' = 0
    /\ ret' = "running"
    /\ minicondaLocal' = FALSE
    /\ result' = 0
    /\ report' = "none"
    /\ installMsg' = "none"
    /\ prevEnsured' = ensured
    /\ ensured' = "none"
    /\ \E j \in HostJobs :
          /\ job' = j
          /\ args' = Descriptor(j)
    /\ pkgLog' = <<>>
    /\ launched' = NoLaunch
    /\ UNCHANGED <<miniconda, artifactCwd, artifactPre, envs, bridgeVars, auxVars>>

\* lines 8-12 and 170-172
CheckMinicondaWsl ==
    /\ pc = "s_checkMiniconda"
    /\ \/ \* subprocess.run raises (no wsl executable): setup raises
          /\ cmds' = Append(cmds, Raised("test_d"))
          /\ End("raised")
          /\ UNCHANGED minicondaLocal
       \/ \E rc \in PossibleRc("test_d") :
             /\ cmds' = Append(cmds, Cmd("test_d", rc))
             /\ minicondaLocal' = ProbeOK(rc)
             /\ IF NeedsInstall(ProbeOK(rc))
                   THEN pc' = "s_install" /\ k' = 1
                   ELSE pc' = "s_checkEnv" /\ k' = 0
             /\ ret' = ret
    /\ UNCHANGED <<miniconda, artifactCwd, artifactPre, envs, result, report,
                   installMsg, ensured, prevEnsured, nOps, bridgeVars, launchVars, logVars, auxVars>>

\* what a successful step of install_miniconda_on_wsl does to the subsystem
InstallEffect(c) ==
    /\ artifactCwd' = CASE c = "wget" -> TRUE
                        [] c = "rm"   -> FALSE
                        [] OTHER      -> artifactCwd
    /\ miniconda' = IF c = "bash" THEN TRUE ELSE miniconda

\* lines 46-63 and 70-71: one check_call of install_miniconda_on_wsl
InstallMinicondaStep ==
    /\ pc = "s_install"
    /\ LET c == InstallSteps[k] IN
       \/ \* check_call raises OSError, which the except clause does not catch
          /\ cmds' = Append(cmds, Raised(c))
          /\ End("raised")
          /\ UNCHANGED <<miniconda, artifactCwd, installMsg>>
       \/ \E rc \in PossibleRc(c) :
             /\ cmds' = Append(cmds, Cmd(c, rc))
             /\ ret' = ret
             /\ IF rc # 0
                   THEN \* CalledProcessError: printed, the function returns
                        /\ installMsg' = "error"
                        /\ pc' = "s_checkEnv" /\ k' = 0
                        /\ UNCHANGED <<miniconda, artifactCwd>>
                   ELSE /\ InstallEffect(c)
                        /\ UNCHANGED installMsg
                        /\ IF k = Len(InstallSteps)
                              THEN pc' = "s_installPip" /\ k' = 0
                              ELSE pc' = pc /\ k' = k + 1
    /\ UNCHANGED <<artifactPre, envs, minicondaLocal, result, report,
                   ensured, prevEnsured, nOps, bridgeVars, launchVars, logVars, auxVars>>

\* lines 65-68: pip install rpyc (exit code not looked at), success message
InstallMinicondaPip ==
    /\ pc = "s_installPip"
    /\ \E rc \in PossibleRc("pip_rpyc_base") :
          cmds' = Append(cmds, Cmd("pip_rpyc_base", rc))
    /\ installMsg' = "success"
    /\ pc' = "s_checkEnv"
    /\ UNCHANGED <<k, ret, miniconda, artifactCwd, artifactPre, envs,
                   minicondaLocal, result, report, ensured, prevEnsured, nOps,
                   bridgeVars, launchVars, logVars, auxVars>>

\* lines 74-92 and 175-177
CheckEnvCondaWsl ==
    /\ pc = "s_checkEnv"
    /\ \/ /\ cmds' = Append(cmds, Raised("info_envs"))
          /\ End("raised")
          /\ UNCHANGED ensured
       \/ \E rc \in PossibleRc("info_envs") :
             /\ cmds' = Append(cmds, Cmd("info_envs", rc))
             /\ ret' = ret
             /\ IF NeedsCreate(EnvExists(rc, ListedBasenames, SetupName))
                   THEN pc' = "s_create" /\ k' = 0 /\ UNCHANGED ensured
                   ELSE pc' = "s_launch" /\ k' = 0 /\ ensured' = "found"
    /\ UNCHANGED <<miniconda, artifactCwd, artifactPre, envs, minicondaLocal,
                   result, report, installMsg, prevEnsured, nOps, bridgeVars, launchVars, logVars, auxVars>>

\* lines 94-117: conda create of the fixed base, then `conda list pip`
CreateCondaEnvBase ==
    /\ pc = "s_create"
    /\ \/ /\ cmds' = Append(cmds, Raised("conda_create"))
          /\ End("raised")
          /\ UNCHANGED <<envs, result, ensured>>
       \/ \E rc \in PossibleRc("conda_create"), rcList \in Rcs :
             /\ cmds' = cmds \o <<Cmd("conda_create", rc),
                                  Cmd("conda_list_pip", rcList)>>
             /\ envs' = IF rc = 0 THEN envs \cup {SetupName} ELSE envs
             /\ ensured' = IF rc = 0 THEN "created" ELSE "failed"
             /\ result' = rcList
             /\ pc' = "s_pkgs" /\ k' = 1
             /\ ret' = ret
    /\ UNCHANGED <<miniconda, artifactCwd, artifactPre, minicondaLocal,
                   report, installMsg, prevEnsured, nOps, bridgeVars, launchVars, logVars, auxVars>>

\* lines 141-143: print(f"Failed to execute: {command}"); the print of
\* result.stderr is a comment, and result.stdout is printed nowhere
FailureLine(c) == [command |-> c, stdout |-> FALSE, stderr |-> FALSE]

\* the loop of line 135 left at the first command that exits non-zero
LoopNext_break(i, rc) == IF rc = 0 THEN i + 1 ELSE Len(InstallCommands) + 1

\* line 135: the for loop goes on to the next command whatever the exit code
\* of the one it has just run
LoopNext(i, rc) == i + 1

\* lines 135-148: one turn of the install loop; the last turn is followed by
\* the closing message
CreateCondaEnvInstall ==
    /\ pc = "s_pkgs"
    /\ \E rc \in PkgRc(SetupName) :
          /\ cmds' = Append(cmds, Cmd(InstallCommands[k], rc))
          /\ result' = rc
          /\ pkgLog' = IF rc = 0 THEN pkgLog
                                 ELSE Append(pkgLog, FailureLine(InstallCommands[k]))
          /\ IF LoopNext(k, rc) > Len(InstallCommands)
                THEN /\ report' = ClosingReport(rc)
                     /\ pc' = "s_launch" /\ k' = 0
                ELSE /\ UNCHANGED report
                     /\ pc' = pc /\ k' = LoopNext(k, rc)
    /\ UNCHANGED <<ret, miniconda, artifactCwd, artifactPre, envs,
                   minicondaLocal, installMsg, ensured, prevEnsured, nOps,
                   bridgeVars, launchVars, auxVars>>

\* lines 180-199: the worker command (link.py ... name) is run, its exit code
\* is printed, setup returns None
SetupLaunch ==
    /\ pc = "s_launch"
    /\ \E rc \in PossibleRc("launch_link") :
          cmds' = Append(cmds, Cmd("launch_link", rc))
    /\ launched' = SetupCommand(job, SetupName)
    /\ End("None")
    /\ UNCHANGED <<provVars, bridgeVars, job, args, logVars, auxVars>>

(* =========================== install_conda() ========================== *)
\* lines 32-42: install_conda returns False only from its except clause and
\* True otherwise; no exit code is looked at
CondaReturn(raisedInTry) == IF raisedInTry THEN "False" ELSE "True"

\* lines 29-30 run before the try statement, lines 34-36 inside it
InTry(i) == i >= 3

\* lines 14-27: a caller invokes install_conda(default_install_path); any
\* platform but Windows raises NotImplementedError
InstallCondaStart ==
    /\ pc = "idle"
    /\ nOps < MaxOps
    /\ nOps' = nOps + 1
    /\ cmds' = <<>>
    /\ \E system \in {"Windows", "Linux"} :
          IF system = "Windows"
             THEN pc' = "ic" /\ k' = 1 /\ ret' = "running"
             ELSE End("raised")
    /\ pkgLog' = <<>>
    /\ UNCHANGED <<miniconda, artifactCwd, artifactPre, envs, minicondaLocal,
                   result, report, installMsg, ensured, prevEnsured,
                   bridgeVars, launchVars, auxVars>>

\* what a step of install_conda that exited 0 does to the subsystem
CondaEffect(c) ==
    /\ artifactPre' = CASE c = "ic_wget" -> TRUE
                        [] c = "ic_rm"   -> FALSE
                        [] OTHER         -> artifactPre
    /\ miniconda' = IF c = "ic_bash" THEN TRUE ELSE miniconda

\* lines 29-42: one subprocess.run of install_conda
InstallCondaStep ==
    /\ pc = "ic"
    /\ LET c == CondaSteps[k] IN
       \/ \* subprocess.run raises: propagated before the try, False inside it
          /\ cmds' = Append(cmds, Raised(c))
          /\ IF InTry(k) THEN End(CondaReturn(TRUE)) ELSE End("raised")
          /\ UNCHANGED <<miniconda, artifactPre>>
       \/ \E rc \in PossibleRc(c) :
             /\ cmds' = Append(cmds, Cmd(c, rc))
             /\ IF rc = 0 THEN CondaEffect(c)
                          ELSE UNCHANGED <<miniconda, artifactPre>>
             /\ IF k = Len(CondaSteps)
                   THEN End(CondaReturn(FALSE))
                   ELSE pc' = pc /\ k' = k + 1 /\ ret' = ret
    /\ UNCHANGED <<artifactCwd, envs, minicondaLocal, result, report,
                   installMsg, ensured, prevEnsured, nOps, bridgeVars, launchVars, logVars, auxVars>>

(* ===================== the provisioning specification ================= *)
BridgeInit ==
    /\ workers = [i \in 1..MaxCalls |-> "none"]
    /\ conns = [i \in 1..MaxCalls |-> "none"]
    /\ peer = [i \in 1..MaxCalls |-> 0]
    /\ outcome = [i \in 1..MaxCalls |-> "none"]
    /\ nCalls = 0
    /\ callName = "none"
    /\ stopResult = "none"
    /\ rpycBound \in BOOLEAN

\* the subsystem as an operation may find it: environments live inside the
\* runtime's prefix, so there are none without the runtime
SubsystemInit ==
    /\ miniconda \in BOOLEAN
    /\ envs \in SUBSET Names
    /\ envs # {} => miniconda
    /\ artifactCwd = FALSE
    /\ artifactPre = FALSE

\* no worker command line built yet
LaunchIdle ==
    /\ job = NoJob
    /\ args = NoDescriptor
    /\ pkgLog = <<>>
    /\ launched = NoLaunch

\* checkEnvCondaWsl not applied to a listing of its own
ProbeIdle ==
    /\ probeLines = <<>>
    /\ probeName = <<>>
    /\ probeRc = 0
    /\ probeDone = FALSE
    /\ probeResult = FALSE

\* no path is being translated
PathIdle ==
    /\ pathIn = <<>>
    /\ pathOut = <<>>
    /\ pathOut2 = <<>>
    /\ pathStage = 0

\* the gateway works
TransportUp == reachable = TRUE

\* no activation of shapeaxi_windows, no thread started
\* no activation of shapeaxi_windows has returned yet
NoActivation ==
    [stage |-> "none", thread |-> 0, wsl |-> FALSE, lib |-> FALSE,
     conda |-> FALSE, found |-> FALSE, answer |-> "none", gateEnv |-> "none",
     segmented |-> FALSE, ret |-> "none"]

GuiIdle ==
    /\ guiStack = <<>>
    /\ threads = <<>>
    /\ guiEnv = FALSE
    /\ guiLast = NoActivation

\* enhance_contrast not applied
NormIdle ==
    /\ normV = 0
    /\ normLo = 0
    /\ normHi = 0
    /\ normMin = 0
    /\ normMax = 0
    /\ normDone = FALSE
    /\ normOut = 0

\* Reg.__init__: a timer, no connection, no CLI, no attribute _processed
RegIdle ==
    /\ regConns = 0
    /\ regProcessed = "unset"
    /\ regTimer = FALSE
    /\ regCli = "none"
    /\ regDialog = FALSE
    /\ regPending = 0
    /\ regEnd = 0
    /\ regEndAll = 0

\* WidgetParameter.__init__: a timer, no connection, no CLI job and none of
\* the attributes _processed, _processed2, _processed3
PatchIdle ==
    /\ wJobs = <<>>
    /\ wLogic = 0
    /\ wConns = <<>>
    /\ wFlags = [h \in {"curve", "butterfly", "delete"} |-> "unset"]
    /\ wTimer = FALSE
    /\ wPosts = <<>>

\* no call of shapeaxi yet
SegIdle ==
    /\ segPc = "idle"
    /\ segCli = "none"
    /\ segProcessed2 = "unset"
    /\ segTimer = FALSE
    /\ segConn = FALSE
    /\ segDone = "unset"
    /\ segRet = "none"
    /\ segCalls = 0
    /\ segTicks = 0

\* lines 246, 288-289: FlexRegWidget.setup before its first call of
\* manageNumberWidgetScan
ScanIdle ==
    /\ scanList = <<>>
    /\ scanNumber = 0
    /\ scanT1 = 0
    /\ scanT2 = 0
    /\ scanPc = "idle"
    /\ scanTarget = 0
    /\ scanMade = 0
    /\ scanCalls = 0

\* no call of DownloadUnzip yet, nothing downloaded
DownloadIdle ==
    /\ dlPc = "idle"
    /\ dlName = "none"
    /\ dlFolder = [f \in Folders |-> "absent"]
    /\ dlTemp = "absent"
    /\ dlRead = 0
    /\ dlRet = "none"
    /\ dlCalls = 0

\* lines 1056-1057: the combobox as WidgetParameter.setup makes it
ComboIdle ==
    /\ comboItems = << <<"1">> >>
    /\ comboDone = FALSE
    /\ comboOut = <<>>

\* the module imported, not run as a script
EntryIdle ==
    /\ argvLen = 1
    /\ argvCmd = "none"
    /\ entryPc = "done"
    /\ entryIdx = 0
    /\ entryOut = "none"

\* every part of the widget but the patch combobox as constructed
WidgetRest ==
    /\ PatchIdle
    /\ SegIdle
    /\ ScanIdle
    /\ DownloadIdle

WidgetIdle ==
    /\ WidgetRest
    /\ ComboIdle
    /\ EntryIdle

\* the state after import, whatever the gateway does
InitAnyTransport ==
    /\ pc = "idle"
    /\ k = 0
    /\ cmds = <<>>
    /\ ret = "none"
    /\ nOps = 0
    /\ SubsystemInit
    /\ minicondaLocal = FALSE
    /\ result = 0
    /\ report = "none"
    /\ installMsg = "none"
    /\ ensured = "none"
    /\ prevEnsured = "none"
    /\ BridgeInit
    /\ LaunchIdle
    /\ PathIdle
    /\ ProbeIdle
    /\ GuiIdle
    /\ NormIdle
    /\ RegIdle
    /\ WidgetIdle

Init ==
    /\ InitAnyTransport
    /\ TransportUp

Next ==
    \/ SetupStart
    \/ CheckMinicondaWsl
    \/ InstallMinicondaStep
    \/ InstallMinicondaPip
    \/ CheckEnvCondaWsl
    \/ CreateCondaEnvBase
    \/ CreateCondaEnvInstall
    \/ SetupLaunch
    \/ InstallCondaStart
    \/ InstallCondaStep

Spec == Init /\ [][Next]_vars

\* provisioning over a gateway that may reach no distribution
InitTransport ==
    /\ InitAnyTransport
    /\ reachable \in BOOLEAN

SpecTransport == InitTransport /\ [][Next]_vars

(* =============================== call() =============================== *)
\* the call that is running
Cur == nCalls

\* the worker whose listener holds port 18817, 0 when the port is unbound
Listener ==
    IF \E w \in 1..MaxCalls : workers[w] = "listening"
       THEN CHOOSE w \in 1..MaxCalls : workers[w] = "listening"
       ELSE 0

\* lines 231 and 234 in the opposite order: stop() before running()
CallNext_swapped(p) ==
    CASE p = "c_sleep230" -> "c_stop"
      [] p = "c_stop"     -> "c_running"
      [] p = "c_running"  -> "c_close"
      [] p = "c_close"    -> "idle"
      [] OTHER ->
           LET i == CHOOSE j \in DOMAIN CallSteps : CallSteps[j] = p
           IN  CallSteps[i + 1]

\* the statement after statement p in the body of call(), lines 217-236
CallNext(p) ==
    LET i == CHOOSE j \in DOMAIN CallSteps : CallSteps[j] = p
    IN  IF i < Len(CallSteps) THEN CallSteps[i + 1] ELSE "idle"

\* line 236 never reached: the answer of stop() compared with another word
ShouldClose_never(answer) == answer = "DISCONNECTED"

\* line 235: the connection is closed when stop() answered "DISCONNECTING"
ShouldClose(answer) == answer = "DISCONNECTING"

\* the exception caught inside call() and the statement tried again
CallRaise_retry(step) ==
    /\ cmds' = Append(cmds, Raised(step))
    /\ outcome' = outcome
    /\ pc' = step
    /\ ret' = ret
    /\ k' = k

\* a statement of call() raises: the exception leaves call(), nothing is
\* cleaned up on the way out (there is no try / finally in lines 204-238)
CallRaise(step) ==
    /\ cmds' = Append(cmds, Raised(step))
    /\ outcome' = [outcome EXCEPT ![Cur] = "raised"]
    /\ End("raised")

\* a caller invokes call(default_install_path, args, name)
CallStart ==
    /\ pc = "idle"
    /\ nCalls < MaxCalls
    /\ nCalls' = nCalls + 1
    /\ \E name \in Names : callName' = name
    /\ outcome' = [outcome EXCEPT ![nCalls + 1] = "running"]
    /\ cmds' = <<>>
    /\ pc' = "c_activate"
    /\ k' = 0
    /\ ret' = "running"
    /\ stopResult' = "none"
    /\ UNCHANGED <<provVars, launchVars, logVars, auxVars, workers, conns, peer, rpycBound>>

\* lines 206-217: the activate command, its result is dropped
CallActivate ==
    /\ pc = "c_activate"
    /\ \E rc \in Rcs : cmds' = Append(cmds, Cmd("c_activate", rc))
    /\ pc' = CallNext(pc)
    /\ UNCHANGED <<k, ret, provVars, bridgeVars, launchVars, logVars, auxVars>>

\* lines 219-223: Popen starts the worker process of this call
CallPopen ==
    /\ pc = "c_popen"
    /\ cmds' = Append(cmds, Cmd("c_popen", 0))
    /\ workers' = [workers EXCEPT ![Cur] = "started"]
    /\ launched' = CallCommand(callName)
    /\ pc' = CallNext(pc)
    /\ UNCHANGED <<k, ret, provVars, job, args, logVars, auxVars, conns, peer, outcome, nCalls, callName,
                   stopResult, rpycBound>>

\* lines 226 and 230: time.sleep(2)
CallSleep ==
    /\ pc \in {"c_sleep226", "c_sleep230"}
    /\ cmds' = Append(cmds, Cmd(pc, 0))
    /\ pc' = CallNext(pc)
    /\ UNCHANGED <<k, ret, provVars, bridgeVars, launchVars, logVars, auxVars>>

\* line 228: rpyc.connect("localhost", 18817), one attempt; it returns a
\* connection when a listener holds the port and raises otherwise.  The
\* module has no `import rpyc` (lines 1-6): unless the host has bound the
\* global name, the line raises NameError whatever the worker does.
CallConnect ==
    /\ pc = "c_connect"
    /\ IF rpycBound /\ Listener # 0
          THEN /\ cmds' = Append(cmds, Cmd("c_connect", 0))
               /\ conns' = [conns EXCEPT ![Cur] = "open"]
               /\ peer' = [peer EXCEPT ![Cur] = Listener]
               /\ pc' = CallNext(pc)
               /\ UNCHANGED <<k, ret, outcome>>
          ELSE /\ CallRaise("c_connect")
               /\ UNCHANGED <<conns, peer>>
    /\ UNCHANGED <<provVars, launchVars, logVars, auxVars, workers, nCalls, callName, stopResult,
                   rpycBound>>

\* line 231: conn.root.running(args) blocks until the worker returns; it
\* raises when the worker fails or is gone
CallRunning ==
    /\ pc = "c_running"
    /\ \/ /\ workers[peer[Cur]] = "listening"
          /\ cmds' = Append(cmds, Cmd("c_running", 0))
          /\ pc' = CallNext(pc)
          /\ UNCHANGED <<k, ret, outcome>>
       \/ CallRaise("c_running")
    /\ UNCHANGED <<provVars, launchVars, logVars, auxVars, workers, conns, peer, nCalls, callName,
                   stopResult, rpycBound>>

\* lines 234-235 and 238: result = conn.root.stop(); without the
\* "DISCONNECTING" answer call() returns with the connection as it is
CallStop ==
    /\ pc = "c_stop"
    /\ \/ /\ workers[peer[Cur]] = "listening"
          /\ \E answer \in {"DISCONNECTING", "OTHER"} :
                /\ stopResult' = answer
                /\ cmds' = Append(cmds, Cmd("c_stop", 0))
                /\ IF ShouldClose(answer)
                      THEN /\ pc' = CallNext(pc)
                           /\ UNCHANGED <<k, ret, outcome>>
                      ELSE /\ outcome' = [outcome EXCEPT ![Cur] = "returned"]
                           /\ End("None")
       \/ /\ CallRaise("c_stop")
          /\ UNCHANGED stopResult
    /\ UNCHANGED <<provVars, launchVars, logVars, auxVars, workers, conns, peer, nCalls, callName,
                   rpycBound>>

\* lines 236 and 238: conn.close(), then call() returns
CallClose ==
    /\ pc = "c_close"
    /\ cmds' = Append(cmds, Cmd("c_close", 0))
    /\ conns' = [conns EXCEPT ![Cur] = "closed"]
    /\ outcome' = [outcome EXCEPT ![Cur] = "returned"]
    /\ End("None")
    /\ UNCHANGED <<provVars, launchVars, logVars, auxVars, workers, peer, nCalls, callName, stopResult,
                   rpycBound>>

(* ------------------------- the worker processes ----------------------- *)
\* a started worker binds its listener to the port, if the port is free
WorkerBind ==
    /\ Listener = 0
    /\ \E w \in 1..MaxCalls :
          /\ workers[w] = "started"
          /\ workers' = [workers EXCEPT ![w] = "listening"]
    /\ UNCHANGED <<pc, k, cmds, ret, provVars, launchVars, logVars, auxVars, conns, peer, outcome, nCalls,
                   callName, stopResult, rpycBound>>

\* a worker process ends (it was told to stop, it failed, or it could not
\* bind the port)
WorkerExit ==
    /\ \E w \in 1..MaxCalls :
          /\ workers[w] \in {"started", "listening"}
          /\ workers' = [workers EXCEPT ![w] = "exited"]
    /\ UNCHANGED <<pc, k, cmds, ret, provVars, launchVars, logVars, auxVars, conns, peer, outcome, nCalls,
                   callName, stopResult, rpycBound>>

(* ========================= the bridge specification =================== *)
NextBridge ==
    \/ CallStart
    \/ CallActivate
    \/ CallPopen
    \/ CallSleep
    \/ CallConnect
    \/ CallRunning
    \/ CallStop
    \/ CallClose
    \/ WorkerBind
    \/ WorkerExit

SpecBridge == Init /\ [][NextBridge]_vars

(* ============================== properties ============================ *)
SetupPcs == {"s_checkMiniconda", "s_install", "s_installPip", "s_checkEnv",
             "s_create", "s_pkgs", "s_launch"}

\* position in cmds of the call of c that returned, 0 when there is none
ReturnedAt(c) ==
    IF \E i \in DOMAIN cmds : cmds[i].cmd = c /\ ~cmds[i].exc
       THEN CHOOSE i \in DOMAIN cmds : cmds[i].cmd = c /\ ~cmds[i].exc
       ELSE 0

\* c was issued only after a had returned
After(a, c) == Issued(c) => ReturnedAt(a) # 0 /\ ReturnedAt(a) < IndexOf(c)

PkgIssued == \E i \in DOMAIN InstallCommands : Ran(InstallCommands[i])

\* C1: the worker command is run only for an environment that the
\* environment step confirmed present (found in the listing, or created with
\* exit code 0); otherwise the run fails before the worker is launched.
C1_NoLaunchWithoutEnv ==
    Ran("launch_link") => ensured \in {"found", "created"}

\* C2: within one call() the steps are issued in the order Popen, readiness
\* sleep, connect, running, stop, close, each at most once; stop is issued
\* only after running has returned, and running only on an open connection.
C2_CallOrder ==
    /\ After("c_popen", "c_sleep226")
    /\ After("c_sleep226", "c_connect")
    /\ After("c_connect", "c_running")
    /\ After("c_running", "c_stop")
    /\ After("c_stop", "c_close")
    /\ \A i \in DOMAIN CallSteps : Count(CallSteps[i]) <= 1
    /\ pc \in {"c_running", "c_stop", "c_close"} => conns[Cur] = "open"

\* C2 witness: a call went through all its steps up to close
C2_Witness ==
    /\ pc = "idle"
    /\ Issued("c_close")
    /\ Issued("c_running")

\* C3: when the connect of a call raises because no listener holds the
\* port, the worker process that call launched is terminated and the call
\* has no open connection.
C3_ConnectFailureTerminatesWorker ==
    (pc = "idle" /\ rpycBound /\ Issued("c_connect")
        /\ ReturnedAt("c_connect") = 0)
        => /\ workers[Cur] \notin {"started", "listening"}
           /\ conns[Cur] # "open"

\* C4: a call whose running() returned issues stop(); when stop() answered
\* "DISCONNECTING" the connection, open until then, is closed when the call
\* returns, and a returned call leaves the bridge ready for a fresh call.
C4_StopThenClose ==
    /\ (pc = "idle" /\ ReturnedAt("c_running") # 0) => Issued("c_stop")
    /\ pc = "c_close" => conns[Cur] = "open" /\ stopResult = "DISCONNECTING"
    /\ (pc = "idle" /\ stopResult = "DISCONNECTING")
          => conns[Cur] = "closed" /\ outcome[Cur] = "returned"
    /\ (nCalls > 0 /\ nCalls < MaxCalls /\ outcome[Cur] = "returned")
          => ENABLED CallStart

\* C4 witness: after a call that was closed on "DISCONNECTING", a fresh call
\* has opened its own connection
C4_Witness ==
    /\ nCalls = 2
    /\ outcome[1] = "returned"
    /\ conns[1] = "closed"
    /\ conns[2] = "open"

C6_InstallFailureIsFatal ==
    installMsg = "error"
        => /\ ~Ran("info_envs")
           /\ ~Ran("conda_create")
           /\ ~Ran("launch_link")

\* C7: install_conda returns True only when the download, the installer and
\* the init step all exited 0, and a run of it that returned has run no
\* install step after a failed download.
C7_InstallCondaResult ==
    /\ ret = "True" => /\ IssuedRc("ic_wget", 0)
                       /\ IssuedRc("ic_bash", 0)
                       /\ IssuedRc("ic_init", 0)
    /\ (ret = "True" /\ IssuedRc("ic_wget", 1))
          => ~Ran("ic_chmod") /\ ~Ran("ic_bash") /\ ~Ran("ic_init")

\* C8: when ~/miniconda3 is there at the probe, the probe reports it present,
\* and setup then issues no download and no installer step: the probe is the
\* only command before the environment listing.
C8_NoInstallWhenPresent ==
    /\ (pc \in SetupPcs \ {"s_checkMiniconda"} /\ miniconda
           /\ ~IssuedRc("bash", 0))
          => minicondaLocal
    /\ IssuedRc("test_d", 0)
          => /\ \A i \in DOMAIN InstallSteps : ~Issued(InstallSteps[i])
             /\ ~Issued("pip_rpyc_base")
             /\ pc \notin {"s_install", "s_installPip"}

\* C8 witness: a setup that found the runtime ran to its end
C8_Witness ==
    /\ pc = "idle"
    /\ ret = "None"
    /\ IssuedRc("test_d", 0)
    /\ Issued("launch_link")

C10_ReportGatedByBase ==
    report # "none" => (report = "created" <=> IssuedRc("conda_create", 0))

\* C11: in createCondaEnv the conda create of the fixed base is run before
\* any install command; the install commands are run one by one in the order
\* of the list, and once the loop is over every one of them has been run,
\* whatever the exit codes of the others.
C11_BaseThenEveryEntry ==
    /\ \A j \in DOMAIN InstallCommands :
          Ran(InstallCommands[j])
             => LET q == IndexOf(InstallCommands[j]) IN
                /\ Ran("conda_create")
                /\ IndexOf("conda_create") < q
                /\ Count(InstallCommands[j]) = 1
                /\ j > 1 => /\ q > 1
                            /\ cmds[q - 1].cmd = InstallCommands[j - 1]
                            /\ ~cmds[q - 1].exc
    /\ (Ran("conda_create") /\ (pc = "s_launch" \/ Ran("launch_link")))
          => \A j \in DOMAIN InstallCommands : Ran(InstallCommands[j])

\* C11 witness: the first install command exited non-zero and the last one
\* was still run, and exited 0
C11_Witness ==
    /\ pc = "s_launch"
    /\ IssuedRc("pip_torch", 1)
    /\ IssuedRc("pip_monai", 0)
    /\ IssuedRc("pip_scipy", 0)

(* ================= the path and probe specifications ================= *)
\* a caller translates a host path
Translate ==
    /\ pathStage = 0
    /\ pathOut' = windows_to_linux_path(pathIn)
    /\ pathStage' = 1
    /\ UNCHANGED <<pc, k, cmds, ret, provVars, bridgeVars, launchVars, logVars, probeVars,
                   transportVars, guiVars, normVars, regVars, widgetVars,
                   pathIn, pathOut2>>

\* a caller translates the translated path again
TranslateAgain ==
    /\ pathStage = 1
    /\ pathOut2' = windows_to_linux_path(pathOut)
    /\ pathStage' = 2
    /\ UNCHANGED <<pc, k, cmds, ret, provVars, bridgeVars, launchVars, logVars, probeVars,
                   transportVars, guiVars, normVars, regVars, widgetVars,
                   pathIn, pathOut>>

\* everything but the path translation at rest, in a subsystem without runtime
RestInit ==
    /\ pc = "idle"
    /\ k = 0
    /\ cmds = <<>>
    /\ ret = "none"
    /\ nOps = 0
    /\ miniconda = FALSE
    /\ envs = {}
    /\ artifactCwd = FALSE
    /\ artifactPre = FALSE
    /\ minicondaLocal = FALSE
    /\ result = 0
    /\ report = "none"
    /\ installMsg = "none"
    /\ ensured = "none"
    /\ prevEnsured = "none"
    /\ BridgeInit
    /\ rpycBound = FALSE
    /\ LaunchIdle
    /\ TransportUp
    /\ RegIdle

InitPath ==
    /\ RestInit
    /\ GuiIdle
    /\ WidgetIdle
    /\ ProbeIdle
    /\ NormIdle
    /\ pathIn \in Strings(PathChars, MaxPathLen)
    /\ pathOut = <<>>
    /\ pathOut2 = <<>>
    /\ pathStage = 0

NextPath ==
    \/ Translate
    \/ TranslateAgain

SpecPath == InitPath /\ [][NextPath]_vars

(* ========================== checkEnvCondaWsl() ======================== *)
\* characters of the listing lines tried
LineChars == {"e", "n", "/", "\\", ":"}
\* the two separators of os.path on the host
Seps == {"/", "\\"}
\* names asked for
ProbeNames == {<<"e">>, <<"e", "n">>}
\* further lines of the listing: the header, and entries whose last component
\* is the longer name, has it as a prefix, or lies below it
OtherLines == {<<"#">>,
               <<"/", "e", "/", "e", "n">>,
               <<"/", "e", "/", "e", "n", "n">>,
               <<"/", "e", "n", "/", "n">>}

\* conda prints a name or blanks in front of the path of an environment: no
\* line starts with two separators
ListingLine(line) == ~(Len(line) >= 2 /\ line[1] \in Seps /\ line[2] \in Seps)

\* os.path.splitdrive on the host: a letter and a colon in front are the drive
AfterDrive(line) ==
    IF Len(line) >= 2 /\ line[2] = ":" THEN SubSeq(line, 3, Len(line)) ELSE line

\* the line taken whole as the name of the environment
Basename_whole(line) == line

\* line 86: os.path.basename(line), what follows the last separator
RECURSIVE TailAfterSep(_)
TailAfterSep(str) ==
    IF str = <<>> \/ str[Len(str)] \in Seps
       THEN <<>>
       ELSE TailAfterSep(SubSeq(str, 1, Len(str) - 1)) \o <<str[Len(str)]>>

Basename(line) == TailAfterSep(AfterDrive(line))

\* lines 85-86: env_name of every line
BasenamesOf(lines) == {Basename(lines[i]) : i \in DOMAIN lines}

\* lines 74-92 applied to a listing
ProbeEnv ==
    /\ ~probeDone
    /\ probeResult' = EnvExists(probeRc, BasenamesOf(probeLines), probeName)
    /\ probeDone' = TRUE
    /\ UNCHANGED <<pc, k, cmds, ret, provVars, bridgeVars, launchVars, logVars, pathVars,
                   transportVars, guiVars, normVars, regVars, widgetVars,
                   probeLines, probeName, probeRc>>

InitProbe ==
    /\ RestInit
    /\ GuiIdle
    /\ WidgetIdle
    /\ PathIdle
    /\ NormIdle
    /\ probeLines \in {<<l1, l2>> : l1 \in {l \in Strings(LineChars, MaxLineLen) :
                                                 ListingLine(l)},
                                     l2 \in OtherLines}
    /\ probeName \in ProbeNames
    /\ probeRc \in Rcs
    /\ probeDone = FALSE
    /\ probeResult = FALSE

NextProbe == ProbeEnv

SpecProbe == InitProbe /\ [][NextProbe]_vars

\* the line ends in the name, and what is in front of the name is nothing, a
\* drive, or something ending in a separator
EndsInComponent(line, name) ==
    LET cut == Len(line) - Len(name) IN
    /\ cut >= 0
    /\ SubSeq(line, cut + 1, Len(line)) = name
    /\ \/ cut = 0 /\ ~(Len(line) >= 2 /\ line[2] = ":")
       \/ cut = 2 /\ line[2] = ":"
       \/ cut >= 1 /\ line[cut] \in Seps

\* C12: checkEnvCondaWsl returns True exactly when the listing command exited 0
\* and the last path component of some line is the name, the whole component
\* and not a part of it; with a non-zero exit it returns False.
C12_ExactBasenameMatch ==
    probeDone
        => /\ probeResult = (/\ probeRc = 0
                             /\ \E i \in DOMAIN probeLines :
                                   EndsInComponent(probeLines[i], probeName))
           /\ (probeRc # 0 => probeResult = FALSE)

\* C12 witness: the name is a prefix of one entry's last component and a
\* directory of the other's, the listing exits 0, the probe says absent
C12_Witness ==
    /\ probeDone
    /\ probeRc = 0
    /\ probeName = <<"e", "n">>
    /\ probeLines = << <<"e", "n", "/">>, <<"/", "e", "/", "e", "n", "n">> >>
    /\ probeResult = FALSE

\* the string without the blanks at its ends: the part from its first to its
\* last character that is no blank, empty when it has none
Core(str) ==
    IF \A i \in 1..Len(str) : str[i] \in Whitespace
       THEN <<>>
       ELSE LET nb == {i \in 1..Len(str) : str[i] \notin Whitespace}
                lo == CHOOSE i \in nb : \A j \in nb : i <= j
                hi == CHOOSE i \in nb : \A j \in nb : j <= i
            IN  SubSeq(str, lo, hi)

\* the string starts with a drive marker: one letter, then a colon
HasDriveMarker(str) == Len(str) >= 2 /\ str[1] \in Letters /\ str[2] = ":"

\* C13: for a host path that (blanks at its ends aside) starts with a drive
\* marker X:, the result is /mnt/, the lower-cased drive letter, then the
\* rest of the path with every backslash turned into a slash.
C13_DriveToMount ==
    (pathStage >= 1 /\ HasDriveMarker(Core(pathIn)))
        => LET core == Core(pathIn) IN
           /\ Len(pathOut) = Len(core) + 4
           /\ SubSeq(pathOut, 1, 5) = MntPrefix
           /\ pathOut[6] = (IF core[1] = "C" THEN "c" ELSE core[1])
           /\ \A i \in 3..Len(core) :
                 pathOut[i + 4] = (IF core[i] = "\\" THEN "/" ELSE core[i])

\* C13 witness: an upper-case drive, a backslash and a blank at the end
C13_Witness ==
    /\ pathStage >= 1
    /\ pathIn = <<"C", ":", "\\", " ">>
    /\ pathOut = <<"/", "m", "n", "t", "/", "c", "/">>

\* C14: for a string that does not start with a drive marker the result is
\* the string (blanks at its ends aside) with every backslash turned into a
\* slash and nothing else changed, wherever else it holds a colon.
C14_NoMarkerOnlySeparators ==
    (pathStage >= 1 /\ ~HasDriveMarker(Core(pathIn)))
        => LET core == Core(pathIn) IN
           /\ Len(pathOut) = Len(core)
           /\ \A i \in 1..Len(core) :
                 pathOut[i] = (IF core[i] = "\\" THEN "/" ELSE core[i])

\* a host path as Windows allows it: a drive marker, and no further colon
ValidHostPath(str) ==
    /\ HasDriveMarker(Core(str))
    /\ \A i \in 3..Len(Core(str)) : Core(str)[i] # ":"

\* C15: translating the translation of a valid host path with a drive marker
\* gives the translation again.
C15_Idempotent ==
    (pathStage = 2 /\ ValidHostPath(pathIn)) => pathOut2 = pathOut

\* C15 witness: a valid host path was translated twice
C15_Witness ==
    /\ pathStage = 2
    /\ pathIn = <<"C", ":", "\\", "a">>
    /\ pathOut2 = <<"/", "m", "n", "t", "/", "c", "/", "a">>

(* ==================== FlexReg: shapeaxi_windows() ===================== *)
\* The GUI thread runs shapeaxi_windows; each background step is a thread the
\* GUI thread polls with is_alive() while it calls slicer.app.processEvents(),
\* which delivers the pending user events to their handlers.
Top == guiStack[Len(guiStack)]

\* the library test of lines 1557-1563 left out
ReadyAfterChecks_noLib(wsl, lib, conda) == wsl /\ conda

\* lines 1551-1578: ready after the tests of WSL, of its libraries and of conda
ReadyAfterChecks(wsl, lib, conda) == wsl /\ lib /\ conda

\* lines 1690-1700: check_pythonpath_windows runs python inside the
\* environment with `conda run -n`; it cannot print True when the
\* environment does not exist
PythonpathResults(env) == IF env THEN BOOLEAN ELSE {FALSE}

\* threading.Thread(...).start() by activation act: one more thread, alive
Started(kind, act) ==
    Append(threads, [kind |-> kind, alive |-> TRUE, wsl |-> act.wsl,
                     lib |-> act.lib, conda |-> act.conda, env |-> guiEnv])

\* the activation polls the thread it just started
Polling(act, stage) ==
    [act EXCEPT !.stage = stage, !.thread = Len(threads) + 1,
                !.segmented = (stage = "segment")]

\* the activation returns value
Returned(act, value) == [act EXCEPT !.ret = value, !.stage = "returned"]

\* what an activation knows when it is entered
Activation(wsl, lib, conda, answer) ==
    [stage |-> "entered", thread |-> 0, wsl |-> wsl, lib |-> lib,
     conda |-> conda, found |-> guiEnv, answer |-> answer, gateEnv |-> "none",
     segmented |-> FALSE, ret |-> "none"]

\* lines 1631-1688: with the PYTHONPATH test passed the segmentation thread is
\* started and polled, otherwise the function returns False; rest is the
\* stack below the activation
Gate(rest, act) ==
    LET a == [act EXCEPT !.gateEnv = IF guiEnv THEN "present" ELSE "absent"] IN
    \E pp \in PythonpathResults(guiEnv) :
        IF pp
           THEN /\ threads' = Started("segment", a)
                /\ guiStack' = Append(rest, Polling(a, "segment"))
                /\ UNCHANGED guiLast
           ELSE /\ guiLast' = Returned(a, "False")
                /\ guiStack' = rest
                /\ UNCHANGED threads

\* lines 1550-1594, or up to 1674 when the environment is found: the part of
\* shapeaxi_windows before its first polling loop
Enter ==
    /\ Len(threads) < MaxThreads
    /\ \E wsl, lib, conda \in BOOLEAN, answer \in {"yes", "no"} :
          IF ~ReadyAfterChecks(wsl, lib, conda)
             THEN /\ guiLast' = Returned(Activation(wsl, lib, conda, "none"), "False")
                  /\ UNCHANGED <<guiStack, threads>>
          ELSE IF guiEnv
             THEN Gate(guiStack, Activation(wsl, lib, conda, "none"))
          ELSE IF answer = "yes"
             THEN LET act == Activation(wsl, lib, conda, answer) IN
                  /\ threads' = Started("create", act)
                  /\ guiStack' = Append(guiStack, Polling(act, "create"))
                  /\ UNCHANGED guiLast
          ELSE /\ guiLast' = Returned(Activation(wsl, lib, conda, answer), "False")
               /\ UNCHANGED <<guiStack, threads>>
    /\ UNCHANGED guiEnv

GuiUnchanged ==
    UNCHANGED <<pc, k, cmds, ret, provVars, bridgeVars, launchVars, logVars, pathVars,
                probeVars, transportVars, normVars, regVars, widgetVars>>

\* processPatch -> checkSegmentation -> shapeaxi_windows from the main event
\* loop
ShapeaxiWindowsStart ==
    /\ guiStack = <<>>
    /\ Enter
    /\ GuiUnchanged

\* the same handler delivered by processEvents() inside a polling loop
ShapeaxiWindowsReenter ==
    /\ guiStack # <<>>
    /\ Len(guiStack) < MaxDepth
    /\ Enter
    /\ GuiUnchanged

\* the target of a thread returns; condaCreateEnv leaves the environment
\* behind it or fails without one
ThreadExit ==
    /\ \E t \in DOMAIN threads :
          /\ threads[t].alive
          /\ threads' = [threads EXCEPT ![t].alive = FALSE]
          /\ IF threads[t].kind = "create"
                THEN guiEnv' \in {guiEnv, TRUE}
                ELSE UNCHANGED guiEnv
    /\ UNCHANGED <<guiStack, guiLast>>
    /\ GuiUnchanged

\* while process.is_alive() ends in the innermost activation after the
\* creation or the installation: lines 1602-1688
PollNext ==
    /\ guiStack # <<>>
    /\ ~threads[Top.thread].alive
    /\ Top.stage \in {"create", "install"}
    /\ Len(threads) < MaxThreads
    /\ LET rest == SubSeq(guiStack, 1, Len(guiStack) - 1) IN
       \/ /\ Top.stage = "create"
          /\ TRUE \in PythonpathResults(guiEnv)
          /\ threads' = Started("install", Top)
          /\ guiStack' = Append(rest, Polling(Top, "install"))
          /\ UNCHANGED guiLast
       \/ /\ Top.stage = "install" \/ FALSE \in PythonpathResults(guiEnv)
          /\ Gate(rest, Top)
    /\ UNCHANGED guiEnv
    /\ GuiUnchanged

\* the segmentation loop ends: viewScan, return True (lines 1683-1685)
ShapeaxiWindowsReturn ==
    /\ guiStack # <<>>
    /\ ~threads[Top.thread].alive
    /\ Top.stage = "segment"
    /\ guiStack' = SubSeq(guiStack, 1, Len(guiStack) - 1)
    /\ guiLast' = Returned(Top, "True")
    /\ UNCHANGED <<threads, guiEnv>>
    /\ GuiUnchanged

InitGui ==
    /\ RestInit
    /\ WidgetIdle
    /\ PathIdle
    /\ ProbeIdle
    /\ NormIdle
    /\ guiStack = <<>>
    /\ threads = <<>>
    /\ guiLast = NoActivation
    /\ guiEnv \in BOOLEAN

NextGui ==
    \/ ShapeaxiWindowsStart
    \/ ShapeaxiWindowsReenter
    \/ ThreadExit
    \/ PollNext
    \/ ShapeaxiWindowsReturn

SpecGui == InitGui /\ [][NextGui]_vars

\* C20: at most one background thread (environment creation, library
\* installation or segmentation) is alive at any time.
C20_OneJobInFlight ==
    Cardinality({t \in DOMAIN threads : threads[t].alive}) <= 1

C30_StepsInOrder ==
    /\ \A t, u \in DOMAIN threads :
          (threads[t].alive /\ threads[u].alive)
            => /\ ~(threads[t].kind = "create" /\ threads[u].kind = "install")
               /\ ~(threads[t].kind = "create" /\ threads[u].kind = "segment")
               /\ ~(threads[t].kind = "install" /\ threads[u].kind = "segment")
    /\ guiLast.ret = "True" => ~threads[guiLast.thread].alive

(* ============ normalize_percentile.py: enhance_contrast() ============= *)
\* The quotient of line 37 is kept as a fraction: every value that depends on
\* it is held times Span, the difference of the thresholds.
Span(lo, hi) == hi - lo

\* line 37: np.clip((array - lower_threshold) / Span, 0, 1), times Span
ClipTimesSpan(v, lo, hi) ==
    IF v - lo < 0 THEN 0
    ELSE IF v - lo > Span(lo, hi) THEN Span(lo, hi)
    ELSE v - lo

\* line 38: normalized_array * max_norm - min_norm, times Span
ScaledTimesSpan(v, lo, hi, min_norm, max_norm) ==
    ClipTimesSpan(v, lo, hi) * max_norm - min_norm * Span(lo, hi)

\* lines 20-40 for one voxel
EnhanceContrast ==
    /\ ~normDone
    /\ normOut' = ScaledTimesSpan(normV, normLo, normHi, normMin, normMax)
    /\ normDone' = TRUE
    /\ UNCHANGED <<pc, k, cmds, ret, provVars, bridgeVars, launchVars, logVars,
                   pathVars, probeVars, transportVars, guiVars, regVars, widgetVars,
                   normV, normLo, normHi, normMin, normMax>>

\* an image whose percentiles differ, any voxel of it, any norm range
InitNorm ==
    /\ RestInit
    /\ GuiIdle
    /\ WidgetIdle
    /\ PathIdle
    /\ ProbeIdle
    /\ normV \in 0..MaxIntensity
    /\ normLo \in 0..MaxIntensity
    /\ normHi \in 0..MaxIntensity
    /\ normLo < normHi
    /\ normMin \in 0..MaxNorm
    /\ normMax \in 0..MaxNorm
    /\ normMin <= normMax
    /\ normDone = FALSE
    /\ normOut = 0

NextNorm == EnhanceContrast

SpecNorm == InitNorm /\ [][NextNorm]_vars

\* C26: the voxel is mapped into the range from min_norm to max_norm: to
\* min_norm at or below the lower threshold, to max_norm at or above the
\* upper threshold, linearly in between (all values times Span).
C26_MapsIntoNormRange ==
    normDone
        => LET d == Span(normLo, normHi) IN
           /\ normMin * d <= normOut
           /\ normOut <= normMax * d
           /\ normV <= normLo => normOut = normMin * d
           /\ normV >= normHi => normOut = normMax * d
           /\ (normLo < normV /\ normV < normHi)
                 => normOut = normMin * d + (normV - normLo) * (normMax - normMin)

(* ========================= FlexReg: class Reg ========================= *)
\* run and onProcessUpdateICP both execute on the GUI thread, each to its end;
\* the CLI runs beside them.  A timeout of the timer calls every connection
\* of the signal, one after the other.
RegUnchanged ==
    UNCHANGED <<pc, k, cmds, ret, provVars, bridgeVars, launchVars, logVars,
                pathVars, probeVars, transportVars, guiVars, normVars, widgetVars>>

\* the test of line 800 left out
AlreadyProcessed_never(p) == FALSE

\* line 800: hasattr(self, "_processed") and self._processed
AlreadyProcessed(p) == p = "True"

\* the ways a scheduled CLI can go on: it runs, and a running one completes,
\* completes with errors or is cancelled
CliNext(status) ==
    CASE status = "scheduled" -> {"running"}
      [] status = "running"   -> {"completed", "completedWithErrors", "cancelled"}
      [] OTHER                -> {}

\* line 809: GetStatus() & Completed; CompletedWithErrors holds the bit too
HasCompletedBit(status) == status \in {"completed", "completedWithErrors"}

\* lines 740-776: run, both surfaces loaded and patched
RegRun ==
    /\ regPending = 0
    /\ regConns < MaxRuns
    /\ regProcessed' = "False"
    /\ regCli' = "scheduled"
    /\ regConns' = regConns + 1
    /\ regTimer' = TRUE
    /\ regEnd' = 0
    /\ UNCHANGED <<regDialog, regPending, regEndAll>>
    /\ RegUnchanged

\* the CLI started by the latest run changes its status
RegCliAdvances ==
    /\ \E status \in CliNext(regCli) : regCli' = status
    /\ UNCHANGED <<regConns, regProcessed, regTimer, regDialog, regPending, regEnd,
                   regEndAll>>
    /\ RegUnchanged

\* the active timer times out: every connection is to be called
RegTick ==
    /\ regTimer
    /\ regPending = 0
    /\ regPending' = regConns
    /\ UNCHANGED <<regConns, regProcessed, regTimer, regCli, regDialog, regEnd,
                   regEndAll>>
    /\ RegUnchanged

\* lines 794-815: one call of onProcessUpdateICP
OnProcessUpdateICP ==
    /\ regPending > 0
    /\ regPending' = regPending - 1
    /\ IF AlreadyProcessed(regProcessed)
          THEN UNCHANGED <<regProcessed, regTimer, regDialog, regEnd, regEndAll>>
          ELSE IF HasCompletedBit(regCli)
                  THEN /\ regProcessed' = "True"
                       /\ regTimer' = FALSE
                       /\ regDialog' = FALSE
                       /\ regEnd' = regEnd + 1
                       /\ regEndAll' = regEndAll + 1
                  ELSE /\ regDialog' = TRUE
                       /\ UNCHANGED <<regProcessed, regTimer, regEnd, regEndAll>>
    /\ UNCHANGED <<regConns, regCli>>
    /\ RegUnchanged

InitReg ==
    /\ RestInit
    /\ GuiIdle
    /\ WidgetIdle
    /\ PathIdle
    /\ ProbeIdle
    /\ NormIdle

NextReg ==
    \/ RegRun
    \/ RegCliAdvances
    \/ RegTick
    \/ OnProcessUpdateICP

SpecReg == InitReg /\ [][NextReg]_vars

\* C28: endProcess is executed at most once per run, and only with the
\* Completed bit set; it has been executed exactly when _processed is true,
\* and from then on the timer is stopped, however many connections the
\* timeout has and however many of their calls are still to come; over all
\* runs endProcess is executed no more often than run was invoked.
C28_EndProcessOnce ==
    /\ regEnd <= 1
    /\ regEnd = 1 <=> regProcessed = "True"
    /\ regEnd = 1 => /\ HasCompletedBit(regCli)
                     /\ ~regTimer
    /\ (regEnd = 0 /\ regConns > 0) => regTimer
    /\ regEndAll <= regConns

\* C28 witness: the third run, three connections; the first call of a timeout
\* saw the Completed bit and ran endProcess, the other calls are still to come
C28_Witness ==
    /\ regConns = 3
    /\ regPending = 2
    /\ regEnd = 1
    /\ ~regTimer

(* ================== FlexReg: WidgetParameter patches =================== *)
\* One WidgetParameter with its surface loaded and segmented. processPatch,
\* draw and deletPatch each start a CLI job, keep it in self.logic and poll
\* it from the one timer of the widget.
Handlers == {"curve", "butterfly", "delete"}

WidgetUnchanged ==
    UNCHANGED <<pc, k, cmds, ret, provVars, bridgeVars, launchVars, logVars,
                pathVars, probeVars, transportVars, guiVars, normVars, regVars>>

PatchUnchanged ==
    /\ WidgetUnchanged
    /\ UNCHANGED <<segVars, scanVars, dlVars, comboVars, entryVars>>

\* self.logic = FlexRegLogic(...); self.logic.process()
StartJob(op) ==
    /\ Len(wJobs) < MaxJobs
    /\ wJobs' = Append(wJobs, [op |-> op, status |-> "scheduled"])
    /\ wLogic' = Len(wJobs) + 1
    /\ wFlags' = [wFlags EXCEPT ![op] = "False"]
    /\ wTimer' = TRUE
    /\ UNCHANGED wPosts

\* lines 1822-1872: processPatch disconnects every slot and connects
\* onProcessUpdateButterfly
ProcessPatch ==
    /\ StartJob("butterfly")
    /\ wConns' = <<"butterfly">>
    /\ PatchUnchanged

\* lines 2068-2130: draw disconnects every slot and connects
\* onProcessUpdateCurve
Draw ==
    /\ StartJob("curve")
    /\ wConns' = <<"curve">>
    /\ PatchUnchanged

\* lines 1152-1182: deletPatch connects onProcessUpdateDelete and disconnects
\* nothing
DeletPatch ==
    /\ StartJob("delete")
    /\ wConns' = Append(wConns, "delete")
    /\ PatchUnchanged

\* a CLI job moves on
WidgetCliAdvances ==
    /\ \E j \in DOMAIN wJobs : \E st \in CliNext(wJobs[j].status) :
          wJobs' = [wJobs EXCEPT ![j].status = st]
    /\ UNCHANGED <<wLogic, wConns, wFlags, wTimer, wPosts>>
    /\ PatchUnchanged

\* lines 1270-1289, 1877-1902, 2139-2170: one completion handler called on
\* the widget in state st; it reads the status of self.logic.cliNode
Slot(h, st) ==
    IF st.flags[h] = "True"
       THEN st
    ELSE IF HasCompletedBit(wJobs[wLogic].status)
       THEN [flags |-> [st.flags EXCEPT ![h] = "True"],
             timer |-> FALSE,
             posts |-> Append(st.posts, [handler |-> h, job |-> wLogic])]
    ELSE st

RECURSIVE RunSlots(_, _)
\* the slots of one timeout, called in the order of their connection
RunSlots(slots, st) ==
    IF slots = <<>>
       THEN st
       ELSE RunSlots(Tail(slots), Slot(Head(slots), st))

\* one timeout of the active timer
WidgetTick ==
    /\ wTimer
    /\ LET st == RunSlots(wConns, [flags |-> wFlags, timer |-> wTimer,
                                   posts |-> wPosts]) IN
       /\ wFlags' = st.flags
       /\ wTimer' = st.timer
       /\ wPosts' = st.posts
    /\ UNCHANGED <<wJobs, wLogic, wConns>>
    /\ PatchUnchanged

InitWidget ==
    /\ RestInit
    /\ PathIdle
    /\ ProbeIdle
    /\ NormIdle
    /\ GuiIdle
    /\ WidgetIdle

NextWidget ==
    \/ ProcessPatch
    \/ Draw
    \/ DeletPatch
    \/ WidgetCliAdvances
    \/ WidgetTick

SpecWidget == InitWidget /\ [][NextWidget]_vars

\* C31: every post-processing is done by the handler of the operation that
\* started the job whose status it read, and at most once for a job: a
\* butterfly or curve handler never acts on the status of a deletion job.
C31_HandlerActsOnOwnJob ==
    /\ \A i \in DOMAIN wPosts : wJobs[wPosts[i].job].op = wPosts[i].handler
    /\ \A i, j \in DOMAIN wPosts : wPosts[i].job = wPosts[j].job => i = j

(* ================== FlexReg: WidgetParameter.shapeaxi ================== *)
\* The in-host segmentation: shapeaxi starts the CLI, connects
\* onProcessUpdateSeg to the timer and calls processEvents() until the handler
\* has set _segmentationCompleted.
SegUnchanged ==
    /\ WidgetUnchanged
    /\ UNCHANGED <<patchVars, scanVars, dlVars, comboVars, entryVars>>

\* a CLI status after which the status changes no more
Terminated(status) == status \in {"completed", "completedWithErrors", "cancelled"}

\* lines 1751-1797: shapeaxi up to its loop, or to its return when the
\* libraries are refused or the module CrownSegmentation is not there
ShapeaxiStart ==
    /\ segPc = "idle"
    /\ segCalls < MaxSegCalls
    /\ segCalls' = segCalls + 1
    /\ \E envOk, agree, moduleAvailable \in BOOLEAN :
          IF ~(envOk \/ agree)
             THEN /\ segRet' = "False"
                  /\ UNCHANGED <<segPc, segCli, segProcessed2, segTimer, segConn,
                                 segDone, segTicks>>
          ELSE IF ~moduleAvailable
             THEN /\ segProcessed2' = "False"
                  /\ segRet' = "True"
                  /\ UNCHANGED <<segPc, segCli, segTimer, segConn, segDone, segTicks>>
          ELSE /\ segProcessed2' = "False"
               /\ segConn' = TRUE
               /\ segTimer' = TRUE
               /\ segCli' = "scheduled"
               /\ segDone' = "False"
               /\ segPc' = "polling"
               /\ segRet' = "none"
               /\ segTicks' = 0
    /\ SegUnchanged

\* the segmentation CLI moves on
SegCliAdvances ==
    /\ segCli' \in CliNext(segCli)
    /\ UNCHANGED <<segPc, segProcessed2, segTimer, segConn, segDone, segRet,
                   segCalls, segTicks>>
    /\ SegUnchanged

\* lines 1804-1820: one timeout delivered to onProcessUpdateSeg
OnProcessUpdateSeg ==
    /\ segTimer
    /\ segConn
    /\ IF segProcessed2 = "True"
          THEN UNCHANGED <<segProcessed2, segTimer, segDone, segTicks>>
          ELSE /\ segTicks' = IF segTicks < MaxTicks THEN segTicks + 1 ELSE segTicks
               /\ IF HasCompletedBit(segCli)
                     THEN /\ segProcessed2' = "True"
                          /\ segTimer' = FALSE
                          /\ segDone' = "True"
                     ELSE UNCHANGED <<segProcessed2, segTimer, segDone>>
    /\ UNCHANGED <<segPc, segCli, segConn, segRet, segCalls>>
    /\ SegUnchanged

\* lines 1798-1800: the loop ends, return True
ShapeaxiReturn ==
    /\ segPc = "polling"
    /\ segDone = "True"
    /\ segPc' = "idle"
    /\ segRet' = "True"
    /\ UNCHANGED <<segCli, segProcessed2, segTimer, segConn, segDone, segCalls,
                   segTicks>>
    /\ SegUnchanged

InitSeg ==
    /\ RestInit
    /\ PathIdle
    /\ ProbeIdle
    /\ NormIdle
    /\ GuiIdle
    /\ WidgetIdle

NextSeg ==
    \/ ShapeaxiStart
    \/ SegCliAdvances
    \/ OnProcessUpdateSeg
    \/ ShapeaxiReturn

SpecSeg == InitSeg /\ [][NextSeg]_vars

\* the timer keeps firing while it is active, and the loop of shapeaxi keeps
\* testing its flag
FairSpecSeg ==
    /\ SpecSeg
    /\ WF_vars(OnProcessUpdateSeg)
    /\ WF_vars(ShapeaxiReturn)

\* C32: once the segmentation CLI has terminated, completed, completed with
\* errors or cancelled, the polling call of shapeaxi eventually returns.
C32_ReturnsAfterTermination ==
    (segPc = "polling" /\ Terminated(segCli)) ~> (segPc = "idle")

(* =============== FlexReg: FlexRegWidget scan widgets =================== *)
\* manageNumberWidgetScan brings the list of scan widgets to the wanted
\* length and hands its first two widgets to the registration object.
ScanUnchanged ==
    /\ WidgetUnchanged
    /\ UNCHANGED <<patchVars, segVars, dlVars, comboVars, entryVars>>

\* the widget is left in the list
removeWidgetScan_keep(list) == list

\* lines 360-366: list_widget_scan.pop(-1)
removeWidgetScan(list) == SubSeq(list, 1, Len(list) - 1)

\* lines 370-374: a new WidgetParameter at the end of the list
addWidgetScan(list, title) == Append(list, [id |-> scanMade + 1, title |-> title])

\* lines 342-344: no widget of the list is named "WidgetGo", getName returns
\* "WidgetParameter" (line 1125), so the for loop removes nothing
ManageNumberWidgetScanStart ==
    /\ scanPc = "idle"
    /\ scanCalls < MaxScanCalls
    /\ \E number \in 2..MaxScans :
          /\ scanCalls = 0 => number = 2
          /\ scanTarget' = number
    /\ scanCalls' = scanCalls + 1
    /\ scanPc' = "loop"
    /\ UNCHANGED <<scanList, scanNumber, scanT1, scanT2, scanMade>>
    /\ ScanUnchanged

\* lines 346-352: one turn of the while loop
ManageNumberWidgetScanLoop ==
    /\ scanPc = "loop"
    /\ scanNumber # scanTarget
    /\ IF scanTarget >= scanNumber
          THEN /\ scanList' = addWidgetScan(scanList, scanNumber + 1)
               /\ scanMade' = scanMade + 1
               /\ scanNumber' = scanNumber + 1
          ELSE /\ scanList' = removeWidgetScan(scanList)
               /\ scanNumber' = scanNumber - 1
               /\ UNCHANGED scanMade
    /\ UNCHANGED <<scanT1, scanT2, scanPc, scanTarget, scanCalls>>
    /\ ScanUnchanged

\* line 354 and 900-905: the loop has ended, setT1T2
ManageNumberWidgetScanEnd ==
    /\ scanPc = "loop"
    /\ scanNumber = scanTarget
    /\ scanT1' = scanList[1].id
    /\ scanT2' = scanList[2].id
    /\ scanPc' = "idle"
    /\ UNCHANGED <<scanList, scanNumber, scanTarget, scanMade, scanCalls>>
    /\ ScanUnchanged

InitScan ==
    /\ RestInit
    /\ PathIdle
    /\ ProbeIdle
    /\ NormIdle
    /\ GuiIdle
    /\ WidgetIdle

NextScan ==
    \/ ManageNumberWidgetScanStart
    \/ ManageNumberWidgetScanLoop
    \/ ManageNumberWidgetScanEnd

SpecScan == InitScan /\ [][NextScan]_vars

\* turns the loop still has to make
ScanDistance ==
    IF scanTarget >= scanNumber THEN scanTarget - scanNumber
                                ELSE scanNumber - scanTarget

\* C33: every turn of the add/remove loop brings number_widget_scan nearer to
\* the wanted number, so the loop terminates; when a call returns,
\* number_widget_scan is the number asked for, the list holds that many
\* widgets, and T1 and T2 of the registration object are its first and
\* second widget.
C33_ScanCountFollows ==
    [][/\ (scanPc = "loop" /\ scanPc' = "loop") => ScanDistance' < ScanDistance
       /\ (scanPc = "loop" /\ scanPc' = "idle")
            => /\ scanNumber' = scanTarget'
               /\ Len(scanList') = scanNumber'
               /\ scanT1' = scanList'[1].id
               /\ scanT2' = scanList'[2].id
               /\ scanList'[1].id # scanList'[2].id]_vars

\* a later call has shortened the list from four widgets to two and returned
C33_Witness ==
    /\ scanPc = "idle"
    /\ scanCalls = 3
    /\ scanMade = 4
    /\ scanNumber = 2
    /\ Len(scanList) = 2
    /\ scanT1 = scanList[1].id
    /\ scanT2 = scanList[2].id

(* ============== FlexReg: WidgetParameter.DownloadUnzip ================= *)
\* DownloadUnzip with one url, directory and folder_name. The network and
\* the file system decide whether a step succeeds; a step that fails raises
\* out of DownloadUnzip.
DownloadUnchanged ==
    /\ WidgetUnchanged
    /\ UNCHANGED <<patchVars, segVars, scanVars, comboVars, entryVars>>

\* lines 1201-1205 and 1252: an existing out_path is returned as it is,
\* otherwise it is made and the download begins
DownloadUnzipStart ==
    /\ dlPc = "idle"
    /\ dlCalls < MaxDownloads
    /\ dlCalls' = dlCalls + 1
    /\ \E folder_name \in Folders :
          /\ dlName' = folder_name
          /\ IF dlFolder[folder_name] # "absent"
                THEN /\ dlRet' = "path"
                     /\ UNCHANGED <<dlPc, dlFolder, dlTemp, dlRead>>
                ELSE /\ dlFolder' = [dlFolder EXCEPT ![folder_name] = "empty"]
                     /\ dlPc' = "download"
                     /\ dlRead' = 0
                     /\ dlRet' = "none"
                     /\ UNCHANGED dlTemp
    /\ DownloadUnchanged

\* line 1210: urlopen answers and temp.zip is opened for writing, or
\* urlopen raises
DownloadOpen ==
    /\ dlPc = "download"
    /\ dlRead = 0
    /\ \E ok \in BOOLEAN :
          IF ok
             THEN /\ dlTemp' = "partial"
                  /\ dlRead' = 1
                  /\ UNCHANGED <<dlPc, dlRet>>
             ELSE /\ dlPc' = "idle"
                  /\ dlRet' = "raised"
                  /\ UNCHANGED <<dlTemp, dlRead>>
    /\ UNCHANGED <<dlName, dlFolder, dlCalls>>
    /\ DownloadUnchanged

\* lines 1234-1242: one more block is read and written, the last one
\* completes temp.zip, or the read raises
DownloadBlock ==
    /\ dlPc = "download"
    /\ dlRead >= 1
    /\ \E ok \in BOOLEAN :
          IF ~ok
             THEN /\ dlPc' = "idle"
                  /\ dlRet' = "raised"
                  /\ UNCHANGED <<dlTemp, dlRead>>
          ELSE IF dlRead < MaxBlocks
             THEN /\ dlRead' = dlRead + 1
                  /\ UNCHANGED <<dlPc, dlTemp, dlRet>>
          ELSE /\ dlTemp' = "whole"
               /\ dlPc' = "unzip"
               /\ UNCHANGED <<dlRead, dlRet>>
    /\ UNCHANGED <<dlName, dlFolder, dlCalls>>
    /\ DownloadUnchanged

\* lines 1245-1252: extractall, remove temp.zip, return out_path; an
\* extraction that raises leaves what it had written
DownloadExtract ==
    /\ dlPc = "unzip"
    /\ \E left \in {"empty", "partial", "full"} :
          /\ dlFolder' = [dlFolder EXCEPT ![dlName] = left]
          /\ IF left = "full"
                THEN /\ dlTemp' = "absent"
                     /\ dlRet' = "path"
                ELSE /\ dlRet' = "raised"
                     /\ UNCHANGED dlTemp
    /\ dlPc' = "idle"
    /\ UNCHANGED <<dlName, dlRead, dlCalls>>
    /\ DownloadUnchanged

InitDownload ==
    /\ RestInit
    /\ PathIdle
    /\ ProbeIdle
    /\ NormIdle
    /\ GuiIdle
    /\ WidgetIdle

NextDownload ==
    \/ DownloadUnzipStart
    \/ DownloadOpen
    \/ DownloadBlock
    \/ DownloadExtract

SpecDownload == InitDownload /\ [][NextDownload]_vars

\* C34: whenever DownloadUnzip has returned out_path, the contents of the
\* archive are extracted in out_path, also after an earlier call that failed.
C34_ReturnedPathIsExtracted ==
    (dlPc = "idle" /\ dlRet = "path") => dlFolder[dlName] = "full"

(* ============= FlexReg: WidgetParameter.addItemsCombobox =============== *)
\* addItemsCombobox on the item texts of a combobox. A text is a sequence
\* of characters; int() accepts the texts made of decimal digits.
ComboUnchanged ==
    /\ WidgetUnchanged
    /\ UNCHANGED <<patchVars, segVars, scanVars, dlVars, entryVars>>

DecimalDigits == <<"0", "1", "2", "3", "4", "5", "6", "7", "8", "9">>

IsDecimalDigit(c) == \E d \in DOMAIN DecimalDigits : DecimalDigits[d] = c

DigitValue(c) == (CHOOSE d \in DOMAIN DecimalDigits : DecimalDigits[d] = c) - 1

\* int(text) raises no ValueError
IsIntegerText(text) ==
    /\ text # <<>>
    /\ \A i \in DOMAIN text : IsDecimalDigit(text[i])

RECURSIVE IntOfText(_)
\* int(text) for a text of decimal digits
IntOfText(text) ==
    IF text = <<>>
       THEN 0
       ELSE 10 * IntOfText(SubSeq(text, 1, Len(text) - 1)) + DigitValue(text[Len(text)])

RECURSIVE StrOfNat(_)
\* str(n) for an integer n >= 0
StrOfNat(n) ==
    IF n < 10
       THEN <<DecimalDigits[n + 1]>>
       ELSE Append(StrOfNat(n \div 10), DecimalDigits[(n % 10) + 1])

\* line 2178: max_num = -float('inf')
MinusInfinity == [inf |-> TRUE, n |-> 0]

RECURSIVE MaxNum(_, _)
\* lines 2180-2187: the loop over the items, texts that are no integer skipped
MaxNum(items, max_num) ==
    IF items = <<>>
       THEN max_num
       ELSE LET text == Head(items) IN
            IF IsIntegerText(text) /\ (max_num.inf \/ IntOfText(text) > max_num.n)
               THEN MaxNum(Tail(items), [inf |-> FALSE, n |-> IntOfText(text)])
               ELSE MaxNum(Tail(items), max_num)

\* line 2189: str(max_num + 1); -inf + 1 is -inf, and str of it is "-inf"
StrOfNext(max_num) ==
    IF max_num.inf
       THEN <<"-", "i", "n", "f">>
       ELSE StrOfNat(max_num.n + 1)

addItemsCombobox(items) == StrOfNext(MaxNum(items, MinusInfinity))

\* the characters of an item text
ItemChars == {"1", "9", "x"}

\* the texts an item may have, the empty text among them
ItemTexts == Strings(ItemChars, MaxTextLen)

\* a caller asks for the next patch number
AddItemsCombobox ==
    /\ ~comboDone
    /\ comboOut' = addItemsCombobox(comboItems)
    /\ comboDone' = TRUE
    /\ UNCHANGED comboItems
    /\ ComboUnchanged

\* any combobox of up to MaxItems items
InitCombo ==
    /\ RestInit
    /\ PathIdle
    /\ ProbeIdle
    /\ NormIdle
    /\ GuiIdle
    /\ WidgetRest
    /\ EntryIdle
    /\ comboItems \in Strings(ItemTexts, MaxItems)
    /\ comboDone = FALSE
    /\ comboOut = <<>>

NextCombo ==
    \/ AddItemsCombobox

SpecCombo == InitCombo /\ [][NextCombo]_vars

EntryUnchanged ==
    /\ WidgetUnchanged
    /\ UNCHANGED <<patchVars, segVars, scanVars, dlVars, comboVars>>

\* line 243: len(sys.argv) > 3 and sys.argv[1] == "setup"
EntryGuardAccepts == argvLen > 3 /\ argvCmd = "setup"

\* the first and the last index of sys.argv read at lines 246-251 and 187
FirstRead == 3
LastRead == 8

\* sys.argv[i]: the element, or IndexError past the end
ReadArgv(next) ==
    IF entryIdx < argvLen
       THEN /\ IF entryIdx < LastRead
                  THEN /\ entryIdx' = entryIdx + 1
                       /\ UNCHANGED entryPc
                  ELSE /\ entryIdx' = FirstRead
                       /\ entryPc' = next
            /\ UNCHANGED entryOut
       ELSE /\ entryPc' = "done"
            /\ entryOut' = "IndexError"
            /\ UNCHANGED entryIdx

\* line 243
EntryGuard ==
    /\ entryPc = "guard"
    /\ IF EntryGuardAccepts
          THEN /\ entryPc' = "args"
               /\ entryIdx' = FirstRead
               /\ UNCHANGED entryOut
          ELSE /\ entryPc' = "done"
               /\ entryOut' = "skipped"
               /\ UNCHANGED entryIdx
    /\ UNCHANGED <<argvLen, argvCmd>>
    /\ EntryUnchanged

\* lines 245-251: one more value of the dictionary args
EntryArgs ==
    /\ entryPc = "args"
    /\ ReadArgv("provision")
    /\ UNCHANGED <<argvLen, argvCmd>>
    /\ EntryUnchanged

\* lines 259 and 168-186: setup is called and provisions the subsystem
EntryProvision ==
    /\ entryPc = "provision"
    /\ entryPc' = "command"
    /\ UNCHANGED <<argvLen, argvCmd, entryIdx, entryOut>>
    /\ EntryUnchanged

\* line 187: one more argument formatted into the command line
EntryCommand ==
    /\ entryPc = "command"
    /\ ReadArgv("launch")
    /\ UNCHANGED <<argvLen, argvCmd>>
    /\ EntryUnchanged

\* lines 188-189: the worker is started
EntryLaunch ==
    /\ entryPc = "launch"
    /\ entryPc' = "done"
    /\ entryOut' = "launched"
    /\ UNCHANGED <<argvLen, argvCmd, entryIdx>>
    /\ EntryUnchanged

\* the script started with any argument vector
InitEntry ==
    /\ RestInit
    /\ PathIdle
    /\ ProbeIdle
    /\ NormIdle
    /\ GuiIdle
    /\ WidgetRest
    /\ ComboIdle
    /\ argvLen \in 1..MaxArgv
    /\ argvCmd \in IF argvLen >= 2 THEN {"setup", "call", "other"} ELSE {"none"}
    /\ entryPc = "guard"
    /\ entryIdx = 0
    /\ entryOut = "none"

NextEntry ==
    \/ EntryGuard
    \/ EntryArgs
    \/ EntryProvision
    \/ EntryCommand
    \/ EntryLaunch

SpecEntry == InitEntry /\ [][NextEntry]_vars

\* C36: for an argument vector the guard accepts, no read of sys.argv by the
\* construction of the descriptor or by setup is out of range.
C36_GuardCoversReads ==
    EntryGuardAccepts => entryOut # "IndexError"

(* ----------------------- properties of the runner -------------------- *)
\* the subprocess call of c redirects stdout and stderr into the result:
\* the check_call lines 48-63 and the run lines 35-36 pass neither
\* capture_output nor stdout/stderr
Captured(c) ==
    c \notin ({InstallSteps[i] : i \in DOMAIN InstallSteps} \cup {"ic_rm", "ic_init"})

\* C18: no subsystem command of the provisioning code raises for a non-zero
\* exit (install_miniconda_on_wsl never lands in its CalledProcessError
\* clause), and every command that exited non-zero handed its exit code and
\* its captured stdout and stderr back to the code that ran it.
C18_NeverRaisesOnExit ==
    /\ installMsg # "error"
    /\ \A i \in DOMAIN cmds :
          (~cmds[i].exc /\ cmds[i].rc # 0) => Captured(cmds[i].cmd)

(* --------------------- properties of the command line ----------------- *)
\* C16: on the command line setup runs, the input path, the model directory
\* and the output directory are the translations by windows_to_linux_path of
\* the paths the host handed over.
C16_JobPathsTranslated ==
    Ran("launch_link")
        => /\ launched.input = windows_to_linux_path(job.input)
           /\ launched.dir_models = windows_to_linux_path(job.dir_models)
           /\ launched.output_dir = windows_to_linux_path(job.output_dir)

\* the interpreter lies in the directory of the named environment
IsEnvInterpreter(interp, name) ==
    /\ Len(interp) >= 3
    /\ interp[1] = DefaultInstallPath
    /\ interp[2] = "envs"
    /\ interp[3] = name

\* C17: every worker command line names an interpreter of the environment
\* it was provisioned for, never the interpreter of the base runtime, and a
\* companion script.
C17_EnvInterpreter ==
    launched # NoLaunch
        => /\ IsEnvInterpreter(launched.interp, launched.name)
           /\ launched.interp # BasePython
           /\ launched.script \in {windows_to_linux_path(LinkHostPath),
                                    ServerHostPath}

(* ----------------------- properties of the gateway ------------------- *)
\* C19: when the gateway reaches no distribution of a subsystem that holds the
\* runtime, no subsystem command comes
\* back to the code as a command that ran and exited with a code, and setup
\* does not take the runtime for missing and start to install it.
C19_UnreachableIsDistinct ==
    (~reachable /\ miniconda)
        => /\ \A i \in DOMAIN cmds : cmds[i].exc
           /\ pc # "s_install"

(* --------------------- properties of the installation --------------- *)
\* C27: in both installers a step is issued only after the step before it
\* has returned, in the order download, chmod, installer, removal of the
\* artifact, shell integration; no step is issued twice, and the artifact
\* is never removed before the installer has returned.
C27_InstallOrder ==
    /\ After("ic_wget", "ic_chmod")
    /\ After("ic_chmod", "ic_bash")
    /\ After("ic_bash", "ic_rm")
    /\ After("ic_rm", "ic_init")
    /\ After("wget", "chmod")
    /\ After("chmod", "bash")
    /\ After("bash", "rm")
    /\ After("rm", "echo_path")
    /\ After("echo_path", "source_bashrc")
    /\ \A i \in DOMAIN CondaSteps : Count(CondaSteps[i]) <= 1
    /\ \A i \in DOMAIN InstallSteps : Count(InstallSteps[i]) <= 1

\* C27 witness: install_conda went through its five steps and returned
C27_Witness ==
    /\ pc = "idle"
    /\ ret = "True"
    /\ IssuedRc("ic_bash", 0)
    /\ Ran("ic_rm")
    /\ Ran("ic_init")

(* ----------------------- properties of the bridge -------------------- *)
\* C21: the connect of line 228 is tried once, after the one sleep of line
\* 226; it succeeds whenever a listener holds the port at that moment, and
\* with no listener the call ends with the failure, no second attempt made.
C21_FixedDelayOneAttempt ==
    [][(pc = "c_connect" /\ pc' # "c_connect")
          => /\ Count("c_sleep226") = 1
             /\ ~Issued("c_connect")
             /\ Listener # 0 => /\ conns'[Cur] = "open"
                                /\ pc' = "c_sleep230"
             /\ Listener = 0 => /\ conns'[Cur] # "open"
                                /\ outcome'[Cur] = "raised"
                                /\ pc' = "idle"]_vars

\* the statement of the running call raised
RaisedAt(step) == \E i \in DOMAIN cmds : cmds[i].cmd = step /\ cmds[i].exc

\* C22: in one call() the worker is started at most once, the connect is
\* tried at most once and running() and stop() are issued at most once,
\* whether they return or raise; when connect, running or stop raises, the
\* call is over and the exception has reached its caller.
C22_NoRetry ==
    /\ Count("c_popen") <= 1
    /\ Count("c_connect") <= 1
    /\ Count("c_running") <= 1
    /\ Count("c_stop") <= 1
    /\ \A step \in {"c_connect", "c_running", "c_stop"} :
          RaisedAt(step) => /\ pc = "idle"
                            /\ ret = "raised"
                            /\ outcome[Cur] = "raised"
                            /\ cmds[Len(cmds)] = Raised(step)

\* C22 witness: running() raised on an open connection and the call is over
C22_Witness ==
    /\ RaisedAt("c_running")
    /\ Count("c_connect") = 1
    /\ Count("c_popen") = 1
    /\ outcome[Cur] = "raised"

DescriptorKeys ==
    {"input", "dir_models", "lm_type", "teeth", "save_in_folder", "output_dir",
     "image_size", "blur_radius", "faces_per_pixel"}

\* C24: when setup has run the worker command, the dictionary built from the
\* arguments has exactly the nine keys, with the lists split at the blanks
\* and save_in_folder true only for the literal true; the runtime probe, the
\* environment probe and the worker command came in this order; and the
\* worker command carries, word for word after the script, the input, the
\* model directory, the landmark types, the teeth, the save flag, the
\* output directory and the environment name.
C24_DescriptorReachesWorker ==
    Ran("launch_link")
        => /\ DOMAIN args = DescriptorKeys
           /\ args.input = job.input
           /\ args.dir_models = job.dir_models
           /\ args.output_dir = job.output_dir
           /\ args.save_in_folder = (job.save_in_folder = <<"t", "r", "u", "e">>)
           /\ \A i \in DOMAIN args.lm_type : " " \notin {args.lm_type[i][n] : n \in DOMAIN args.lm_type[i]}
           /\ After("test_d", "info_envs")
           /\ After("info_envs", "launch_link")
           /\ Len(launched.words) = 7
           /\ launched.words[1] = args.input
           /\ launched.words[2] = args.dir_models
           /\ launched.words[3] = job.lm_type
           /\ launched.words[4] = job.teeth
           /\ launched.words[5] = job.save_in_folder
           /\ launched.words[6] = args.output_dir

(* ------------------------ properties of the log ---------------------- *)
\* C25: for every install command that exited non-zero, createCondaEnv has
\* printed a line that names the command and carries its captured stdout and
\* stderr, and the loop went on to the commands after it.
C25_FailureLoggedWithStreams ==
    \A j \in DOMAIN InstallCommands :
        IssuedRc(InstallCommands[j], 1)
            => /\ \E i \in DOMAIN pkgLog :
                     /\ pkgLog[i].command = InstallCommands[j]
                     /\ pkgLog[i].stdout
                     /\ pkgLog[i].stderr
               /\ (pc = "s_launch" =>
                     \A n \in DOMAIN InstallCommands : Ran(InstallCommands[n]))

====
